---- MODULE Spec2Model ----
(***************************************************************************)
(* A model of meowi's streaming document engine: the stream registry       *)
(* (App::start_stream / App::process_stream), the code block extractor     *)
(* (App::parse_code_blocks_helper), the renderer's cache builder and       *)
(* viewport clamping (ui::draw_chat) and the key handler (handle_key), as  *)
(* driven by the render loop of run_app.                                   *)
(*                                                                         *)
(* Text is a sequence of characters.  A character is one of the strings    *)
(* below: BT is a backtick, NL a line feed, SP a space, PLUS a character   *)
(* that is neither a word character nor white space (such as '+'), and the *)
(* letters are word characters.                                            *)
(***************************************************************************)
EXTENDS Integers, Sequences, FiniteSets, TLC

BT == "bt"
NL == "nl"
SP == "sp"
PLUS == "plus"

\* regex \w over the model's alphabet
WordChars == {"a", "b", "c", "p", "y"}
\* regex \s and char::is_whitespace over the model's alphabet (a line holds no NL)
SpaceChars == {SP}

Max(a, b) == IF a >= b THEN a ELSE b
Min(a, b) == IF a <= b THEN a ELSE b
\* usize::saturating_sub
SatSub(a, b) == IF a >= b THEN a - b ELSE 0

\* Option<T>
None == <<>>
Some(v) == <<v>>

RECURSIVE Concat(_)
\* the concatenation of a sequence of texts
Concat(ss) == IF ss = <<>> THEN <<>> ELSE Head(ss) \o Concat(Tail(ss))

RECURSIVE SplitNL(_)
\* str::split('\n'): the pieces between line feeds (always at least one piece)
SplitNL(s) ==
    IF \A i \in 1..Len(s) : s[i] # NL
    THEN <<s>>
    ELSE LET k == CHOOSE i \in 1..Len(s) : s[i] = NL /\ \A j \in 1..(i-1) : s[j] # NL
         IN  <<SubSeq(s, 1, k-1)>> \o SplitNL(SubSeq(s, k+1, Len(s)))

\* str::lines(): the pieces between line feeds, without a final empty piece
StrLines(s) ==
    LET parts == SplitNL(s)
    IN  IF parts[Len(parts)] = <<>> THEN SubSeq(parts, 1, Len(parts)-1) ELSE parts

RECURSIVE JoinNL(_)
\* [&str]::join("\n")
JoinNL(ls) ==
    IF ls = <<>> THEN <<>>
    ELSE IF Len(ls) = 1 THEN ls[1]
    ELSE ls[1] \o <<NL>> \o JoinNL(Tail(ls))

\* str::starts_with("```") / strip_prefix("```").is_some()
StartsWithFence(line) ==
    Len(line) >= 3 /\ line[1] = BT /\ line[2] = BT /\ line[3] = BT

\* the text after the three backticks
AfterFence(line) == SubSeq(line, 4, Len(line))

AllSpace(s) == \A i \in 1..Len(s) : s[i] \in SpaceChars

\* the length of the longest prefix of s made of word characters
WordPrefixLen(s) ==
    IF \A i \in 1..Len(s) : s[i] \in WordChars THEN Len(s)
    ELSE (CHOOSE i \in 1..Len(s) : s[i] \notin WordChars
                                   /\ \A j \in 1..(i-1) : s[j] \in WordChars) - 1

\* OPENING_RE = ^```(\w+)?\s*$
OpeningMatches(line) ==
    /\ StartsWithFence(line)
    /\ LET rest == AfterFence(line)
           w    == WordPrefixLen(rest)
       IN  AllSpace(SubSeq(rest, w+1, Len(rest)))

\* caps.get(1) of OPENING_RE, mapped to None when absent or empty
OpeningLang(line) ==
    LET rest == AfterFence(line)
        w    == WordPrefixLen(rest)
    IN  IF w = 0 THEN None ELSE Some(SubSeq(rest, 1, w))

\* CLOSING_RE = ^```\s*$
ClosingMatches(line) == StartsWithFence(line) /\ AllSpace(AfterFence(line))

\* the index of the first line at or after i that closes a block, or Len+1
RECURSIVE ScanToClosing(_, _)
ScanToClosing(lines, i) ==
    IF i > Len(lines) \/ ClosingMatches(lines[i]) THEN i
    ELSE ScanToClosing(lines, i + 1)

RECURSIVE ScanBlocks(_, _, _)
\* the while loop of parse_code_blocks_helper; i is idx + 1
ScanBlocks(msg_idx, lines, i) ==
    IF i > Len(lines) THEN <<>>
    ELSE IF OpeningMatches(lines[i])
    THEN LET j == ScanToClosing(lines, i + 1)
             block == [content    |-> JoinNL(SubSeq(lines, i + 1, j - 1)),
                       language   |-> OpeningLang(lines[i]),
                       start_line |-> i,
                       end_line   |-> SatSub(j - 1, 1)]
         IN  <<<<msg_idx, block>>>> \o ScanBlocks(msg_idx, lines, j + 1)
    ELSE ScanBlocks(msg_idx, lines, i + 1)

\* App::parse_code_blocks_helper
ParseCodeBlocksHelper(msg_idx, content) == ScanBlocks(msg_idx, StrLines(content), 1)

(***************************************************************************)
(* The renderer: ui::parse_message_segments and the cache build of         *)
(* ui::draw_chat.                                                          *)
(***************************************************************************)

RECURSIVE TrimStart(_)
TrimStart(s) == IF s # <<>> /\ Head(s) \in SpaceChars THEN TrimStart(Tail(s)) ELSE s

RECURSIVE TrimEnd(_)
TrimEnd(s) ==
    IF s # <<>> /\ s[Len(s)] \in SpaceChars THEN TrimEnd(SubSeq(s, 1, Len(s)-1)) ELSE s

\* str::trim
Trim(s) == TrimEnd(TrimStart(s))

Fence == <<BT, BT, BT>>

\* the inner while loop of parse_message_segments: the index of the line that
\* closes the block (code_line.trim() == "```"), or Len+1
RECURSIVE SegScanToClosing(_, _)
SegScanToClosing(lines, i) ==
    IF i > Len(lines) \/ Trim(lines[i]) = Fence THEN i
    ELSE SegScanToClosing(lines, i + 1)

\* the code_content of a Code segment: the first code line is dropped when it
\* repeats the language tag
SegCodeContent(lang, code_lines) ==
    IF lang # None /\ code_lines # <<>> /\ Trim(code_lines[1]) = Trim(lang[1])
    THEN JoinNL(Tail(code_lines))
    ELSE JoinNL(code_lines)

TextSegment(current_text) == [kind |-> "Text", text |-> JoinNL(current_text)]

RECURSIVE SegScan(_, _, _)
\* the outer while loop of parse_message_segments; current_text is the pending
\* run of plain lines
SegScan(lines, i, current_text) ==
    IF i > Len(lines)
    THEN IF current_text # <<>> THEN <<TextSegment(current_text)>> ELSE <<>>
    ELSE IF StartsWithFence(lines[i])
    THEN LET rest == AfterFence(lines[i])
             lang == IF Trim(rest) # <<>> THEN Some(Trim(rest)) ELSE None
             j    == SegScanToClosing(lines, i + 1)
             code == [kind |-> "Code", language |-> lang,
                      content |-> SegCodeContent(lang, SubSeq(lines, i + 1, j - 1))]
         IN  (IF current_text # <<>> THEN <<TextSegment(current_text)>> ELSE <<>>)
             \o <<code>> \o SegScan(lines, j + 1, <<>>)
    ELSE SegScan(lines, i + 1, Append(current_text, lines[i]))

\* ui::parse_message_segments
ParseMessageSegments(content) == SegScan(StrLines(content), 1, <<>>)

RECURSIVE BreakWord(_, _)
\* one line without white space, broken every width columns (textwrap breaks a
\* word that is longer than the line); an empty line stays one empty line
BreakWord(line, width) ==
    IF Len(line) <= width THEN <<line>>
    ELSE <<SubSeq(line, 1, width)>> \o BreakWord(SubSeq(line, width + 1, Len(line)), width)

RECURSIVE WrapLines(_, _)
WrapLines(lines, width) ==
    IF lines = <<>> THEN <<>>
    ELSE BreakWord(Head(lines), width) \o WrapLines(Tail(lines), width)

\* textwrap::wrap(text, width) for text whose lines hold no white space
Wrap(text, width) == WrapLines(SplitNL(text), width)

\* const MAX_VISIBLE_LINES_PER_MESSAGE
MAX_VISIBLE_LINES_PER_MESSAGE == 10

\* config::COPY_CODE_BLOCKS, the default keybindings.copy_code_blocks
COPY_CODE_BLOCKS == <<"c", "C", "x", "X">>

\* display lines (ratatui Line): text is the concatenated span content
TextLine(s, role) == [kind |-> "text", text |-> s, style |-> role, pad |-> 0]
RawEmptyLine == [kind |-> "raw", text |-> <<>>, style |-> "none", pad |-> 0]
EllipsisLine == [kind |-> "ellipsis", text |-> <<".", ".", ".">>, style |-> "gray", pad |-> 0]
LoadingLine == [kind |-> "loading", text |-> <<"w">>, style |-> "magenta", pad |-> 0]

\* Line::spans.is_empty(): Line::raw("") and Line::from("") hold no span
SpansEmpty(l) == l.kind \in {"text", "raw"} /\ l.text = <<>>

\* the right part of a border: border_len - border_len / 2
BorderRight(block_width, label_len) ==
    LET border_len == SatSub(block_width, 2 + label_len)
    IN  IF border_len > 0 THEN border_len - (border_len \div 2) ELSE 0

\* the mutant of CodeSegmentLines without the two Line::raw("") around the
\* bordered block
CodeSegmentLinesBare(seg, ordinal, block_width) ==
    LET lang_display == IF seg.language = None THEN <<"c", "o", "d", "e">>
                        ELSE seg.language[1]
        hint == IF ordinal < Len(COPY_CODE_BLOCKS)
                THEN Some(COPY_CODE_BLOCKS[ordinal + 1]) ELSE None
        hint_len == IF hint = None THEN 0 ELSE 10
        code_lines == StrLines(seg.content)
    IN  <<[kind |-> "top", text |-> lang_display, style |-> "border",
           pad |-> BorderRight(block_width, Len(lang_display) + 2)]>>
        \o [k \in 1..Len(code_lines) |->
              [kind |-> "code", text |-> code_lines[k], style |-> "code", pad |-> 0]]
        \o <<[kind |-> "bottom", text |-> hint, style |-> "border",
              pad |-> BorderRight(block_width, hint_len)]>>

\* the lines one Code segment adds to its message's cache entry; ordinal is
\* code_block_count_for_message
CodeSegmentLines(seg, ordinal, block_width) ==
    LET lang_display == IF seg.language = None THEN <<"c", "o", "d", "e">>
                        ELSE seg.language[1]
        hint == IF ordinal < Len(COPY_CODE_BLOCKS)
                THEN Some(COPY_CODE_BLOCKS[ordinal + 1]) ELSE None
        hint_len == IF hint = None THEN 0 ELSE 10
        code_lines == StrLines(seg.content)
    IN  <<RawEmptyLine,
          [kind |-> "top", text |-> lang_display, style |-> "border",
           pad |-> BorderRight(block_width, Len(lang_display) + 2)]>>
        \o [k \in 1..Len(code_lines) |->
              [kind |-> "code", text |-> code_lines[k], style |-> "code", pad |-> 0]]
        \o <<[kind |-> "bottom", text |-> hint, style |-> "border",
              pad |-> BorderRight(block_width, hint_len)],
             RawEmptyLine>>

\* the lines one Text segment adds, and whether it was cut
TextSegmentLines(seg, role, is_collapsible, text_width) ==
    LET wrapped_lines == Wrap(seg.text, Max(text_width, 1))
        is_trunc == is_collapsible /\ Len(wrapped_lines) > MAX_VISIBLE_LINES_PER_MESSAGE
        n == IF is_trunc THEN MAX_VISIBLE_LINES_PER_MESSAGE ELSE Len(wrapped_lines)
    IN  [lines |-> [k \in 1..n |-> TextLine(wrapped_lines[k], role)],
         trunc |-> is_trunc]

RECURSIVE SegmentsToEntry(_, _, _, _, _, _, _)
\* the loop over the segments of one message: its cache entry and the code
\* blocks it pushes to app.code_blocks
SegmentsToEntry(segs, k, ordinal, msg_idx, role, is_collapsible, dims) ==
    IF k > Len(segs) THEN [lines |-> <<>>, trunc |-> FALSE, blocks |-> <<>>]
    ELSE LET seg == segs[k]
             rest == SegmentsToEntry(segs, k + 1,
                                     IF seg.kind = "Code" THEN ordinal + 1 ELSE ordinal,
                                     msg_idx, role, is_collapsible, dims)
         IN  IF seg.kind = "Text"
             THEN LET t == TextSegmentLines(seg, role, is_collapsible, dims.text_width)
                  IN  [lines |-> t.lines \o rest.lines,
                       trunc |-> t.trunc \/ rest.trunc,
                       blocks |-> rest.blocks]
             ELSE [lines |-> CodeSegmentLines(seg, ordinal, dims.block_width) \o rest.lines,
                   trunc |-> rest.trunc,
                   blocks |-> <<<<msg_idx, [content |-> seg.content]>>>> \o rest.blocks]

\* the body of the loop over current_chat_messages for one message; msg_idx is
\* original_msg_idx
BuildEntry(message, msg_idx, trunc_set, dims) ==
    SegmentsToEntry(ParseMessageSegments(message.content), 1, 0, msg_idx,
                    message.role, msg_idx \in trunc_set, dims)

RECURSIVE BuildCache(_, _, _, _)
\* the rebuild of draw_chat: one entry per message whose role is not "system";
\* i is original_msg_idx + 1
BuildCache(messages, i, trunc_set, dims) ==
    IF i > Len(messages) THEN [cache |-> <<>>, blocks |-> <<>>]
    ELSE LET rest == BuildCache(messages, i + 1, trunc_set, dims)
         IN  IF messages[i].role = "system" THEN rest
             ELSE LET e == BuildEntry(messages[i], i - 1, trunc_set, dims)
                  IN  [cache |-> <<[lines |-> e.lines, trunc |-> e.trunc]>> \o rest.cache,
                       blocks |-> e.blocks \o rest.blocks]

RECURSIVE Flatten(_, _, _, _)
\* the flattening loop of draw_chat: buffer_lines and line_to_message_map; i is
\* original_msg_idx + 1 and c is current_displayable_message_cache_idx + 1
Flatten(messages, cache, i, c) ==
    IF i > Len(messages) THEN [lines |-> <<>>, map |-> <<>>]
    ELSE IF messages[i].role = "system" THEN Flatten(messages, cache, i + 1, c)
    ELSE IF c <= Len(cache)
    THEN LET e == cache[c]
             rest == Flatten(messages, cache, i + 1, c + 1)
         IN  [lines |-> e.lines
                        \o (IF e.trunc THEN <<EllipsisLine>> ELSE <<>>)
                        \o <<RawEmptyLine>> \o rest.lines,
              map   |-> [k \in 1..Len(e.lines) |-> <<i - 1, FALSE>>]
                        \o (IF e.trunc THEN <<<<i - 1, TRUE>>>> ELSE <<>>)
                        \o <<<<i - 1, FALSE>>>> \o rest.map]
    ELSE Flatten(messages, cache, i + 1, c)

(***************************************************************************)
(* The application state (struct App), its environment and the render loop *)
(***************************************************************************)

\* bounds of the model
MaxChats == 2
MaxIds == 2
MaxMsgs == 3
MaxFrags == 3
MaxStreams == 2
MaxOvershoot == 1

\* u16::MAX, the follow-bottom value of chat_scroll
U16_MAX == 65535
\* the modulus of an `as u16` cast
U16_MOD == 65536
\* mpsc::channel(100)
CHANNEL_CAPACITY == 100
\* let viewport_height = 10 in handle_key
KEY_VIEWPORT_HEIGHT == 10

\* the text fragments a producer may send
Fragments == {<<"a">>, <<NL>>, <<BT, BT, BT, NL>>}

\* the reply the provider streams in Spec: an opening fence and a code line,
\* one delta each; the task may fail before or between them
Reply == <<<<BT, BT, BT, NL>>, <<"a">>>>

\* the texts the user may submit: an open code block, and a word long enough
\* to wrap to more than MAX_VISIBLE_LINES_PER_MESSAGE lines
LongWord == [k \in 1..(MAX_VISIBLE_LINES_PER_MESSAGE + 1) |-> "a"]
UserInputs == {<<BT, BT, BT, NL, "a">>, LongWord}

\* the sizes of the chat pane (chunks[0] of draw_chat): text widths 1 and 2,
\* viewport heights 1 and 3
Areas == {[width |-> 5, height |-> 21], [width |-> 6, height |-> 23]}

VARIABLES
    mode, chats, current_chat, sidebar_visible, selected_sidebar_idx,
    chat_scroll, max_chat_scroll, cursor_line, last_width, line_cache,
    truncated_messages, need_rebuild_cache, line_to_message, focus,
    stream_tasks, code_blocks, display_len,
    streams, area, next_id, pc, ps, total_lines, viewport_height,
    appended, fx

appVars == <<mode, chats, current_chat, sidebar_visible, selected_sidebar_idx,
             chat_scroll, max_chat_scroll, cursor_line, last_width, line_cache,
             truncated_messages, need_rebuild_cache, line_to_message, focus,
             stream_tasks, code_blocks, display_len>>
envVars == <<streams, area, next_id>>
vars == <<appVars, envVars, pc, ps, total_lines, viewport_height, appended, fx>>

\* the locals of process_stream that live across its loop; ps holds them
\* during the call and, once it has returned, until the frame is drawn
PsIdle == [processed_chunks |-> <<>>, content_updated |-> FALSE]

\* App::new followed by app.chats = load_history() of main, with no saved history
AppInit ==
    /\ mode = "Normal"
    /\ chats = <<>>
    /\ current_chat = 0
    /\ sidebar_visible = TRUE
    /\ selected_sidebar_idx = 0
    /\ chat_scroll = U16_MAX
    /\ max_chat_scroll = 0
    /\ cursor_line = 0
    /\ last_width = 0
    /\ line_cache = <<>>
    /\ truncated_messages = {}
    /\ need_rebuild_cache = TRUE
    /\ line_to_message = <<>>
    /\ focus = "Chat"
    /\ stream_tasks = <<>>
    /\ code_blocks = <<>>
    /\ display_len = 0

\* main up to run_app, with no saved history and the chat pane of size a
InitWith(a) ==
    /\ AppInit
    /\ streams = <<>>
    /\ area = a
    /\ next_id = 1
    /\ pc = "process"
    /\ ps = PsIdle
    /\ total_lines = 0
    /\ viewport_height = 1
    /\ appended = {}
    /\ fx = <<>>

Init == InitWith([width |-> 5, height |-> 21])

\* App::has_valid_chat
HasValidChat == chats # <<>> /\ current_chat < Len(chats)

\* the mutant of FindChat that falls back to the first chat
FindChatOrFirst(cs, chat_id) ==
    IF \E i \in 1..Len(cs) : cs[i].id = chat_id
    THEN CHOOSE i \in 1..Len(cs) : cs[i].id = chat_id /\ \A j \in 1..(i-1) : cs[j].id # chat_id
    ELSE IF cs # <<>> THEN 1 ELSE 0

\* the mutant of FindChat that routes to the displayed chat
FindChatDisplayed(cs, chat_id) ==
    IF cs # <<>> /\ current_chat < Len(cs) THEN current_chat + 1 ELSE 0

\* self.chats.iter().position(|c| c.id == chat_id), 1-based, 0 when absent
FindChat(cs, chat_id) ==
    IF \E i \in 1..Len(cs) : cs[i].id = chat_id
    THEN CHOOSE i \in 1..Len(cs) : cs[i].id = chat_id /\ \A j \in 1..(i-1) : cs[j].id # chat_id
    ELSE 0

\* Message::new
Message(role, content) == [role |-> role, content |-> content]

RECURSIVE CacheTotal(_)
\* the loop of jump_to_last_message over line_cache
CacheTotal(cache) ==
    IF cache = <<>> THEN 0
    ELSE Len(Head(cache).lines) + (IF Head(cache).trunc THEN 1 ELSE 0) + 1
         + CacheTotal(Tail(cache))

\* the cursor_line App::jump_to_last_message sets (it also sets chat_scroll to u16::MAX)
JumpCursor(cache) ==
    LET total == CacheTotal(cache) IN IF total > 0 THEN total - 1 ELSE 0

(***************************************************************************)
(* The stream registry: App::start_stream, the producer tasks of api.rs    *)
(* and App::process_stream.                                                *)
(*                                                                         *)
(* streams[sid] is one mpsc channel with its producer task: queue is what  *)
(* the channel buffers, tx_alive says the Sender is not dropped yet,       *)
(* rx_alive that the Receiver is not dropped yet.  sent and drained record *)
(* what the producer has sent and what try_recv has returned, and base the *)
(* number of messages of the conversation when the stream was registered.  *)
(* appended holds <<chat id, message index, sid>> for every fragment that  *)
(* process_stream put into a message.                                      *)
(***************************************************************************)

\* mpsc::channel(100) and the StreamTask built from it
NewStream(chat_id, base) ==
    [chat_id |-> chat_id, queue |-> <<>>, tx_alive |-> TRUE, rx_alive |-> TRUE,
     sent |-> <<>>, drained |-> <<>>, base |-> base]

\* HashMap::insert of start_stream: the registry after the insert
InsertTask(tasks, chat_id, sid) ==
    [id \in (DOMAIN tasks) \cup {chat_id} |-> IF id = chat_id THEN sid ELSE tasks[id]]

\* start_stream: a Receiver that the insert replaces is dropped
StartStreamChannels(ss, tasks, chat_id, base) ==
    LET dropped == IF chat_id \in DOMAIN tasks THEN {tasks[chat_id]} ELSE {}
    IN  [s \in 1..Len(ss) |-> IF s \in dropped THEN [ss[s] EXCEPT !.rx_alive = FALSE]
                              ELSE ss[s]]
        \o <<NewStream(chat_id, base)>>

\* tx.send(delta).await of the stream_* functions: the fragment is buffered, or
\* the send fails because the Receiver is gone and the task returns the error
ProducerSend(sid, f) ==
    /\ streams[sid].tx_alive
    /\ Len(streams[sid].sent) < MaxFrags
    /\ Len(streams[sid].queue) < CHANNEL_CAPACITY
    /\ streams' = [streams EXCEPT ![sid] =
                     IF @.rx_alive
                     THEN [@ EXCEPT !.queue = Append(@, f), !.sent = Append(@, f)]
                     ELSE [@ EXCEPT !.tx_alive = FALSE]]
    /\ UNCHANGED <<appVars, area, next_id, pc, ps, total_lines, viewport_height,
                   appended, fx>>

\* the producer task returns, Ok(()) at the end of the response or Err on a
\* transport error or an unsupported provider: its Sender is dropped
ProducerEnd(sid) ==
    /\ streams[sid].tx_alive
    /\ streams' = [streams EXCEPT ![sid].tx_alive = FALSE]
    /\ UNCHANGED <<appVars, area, next_id, pc, ps, total_lines, viewport_height,
                   appended, fx>>

\* the mutant of IsClosed that never reports a closed channel
IsClosedNever(stream) == FALSE

\* rx.is_closed(): every Sender is dropped; what the channel still buffers is
\* not looked at
IsClosed(stream) == ~stream.tx_alive

\* the mutant of AppendsToLast that ignores the role of the last message
AppendsToLastAnyRole(messages) == messages # <<>>

\* whether a fragment extends the last message (it is an assistant message)
\* instead of starting a new one
AppendsToLast(messages) ==
    messages # <<>> /\ messages[Len(messages)].role = "assistant"

\* the mutant of PushStr that overwrites the message
PushStrOverwrite(content, chunk) == chunk

\* last_msg.content.push_str(&chunk)
PushStr(content, chunk) == content \o chunk

\* the body of the try_recv loop of process_stream for one chunk; st carries
\* the fields of App and the locals the loop writes
ApplyChunk(st, chat_id, sid, chunk) ==
    LET ci == FindChat(st.chats, chat_id)
    IN  IF ci = 0 THEN st
        ELSE LET chat == st.chats[ci]
                 msg_idx == Len(chat.messages)
                 extend == AppendsToLast(chat.messages)
                 content == IF extend THEN PushStr(chat.messages[msg_idx].content, chunk)
                            ELSE chunk
                 at == IF extend THEN msg_idx - 1 ELSE msg_idx
                 messages == IF extend
                             THEN [chat.messages EXCEPT ![msg_idx].content = content]
                             ELSE Append(chat.messages, Message("assistant", chunk))
             IN  [chats |-> [st.chats EXCEPT ![ci] =
                               [@ EXCEPT !.streaming = TRUE, !.messages = messages]],
                  processed_chunks |-> Append(st.processed_chunks, <<at, content>>),
                  need_rebuild_cache |-> TRUE,
                  content_updated |-> TRUE,
                  truncated_messages |-> st.truncated_messages \ {msg_idx},
                  appended |-> st.appended \cup {<<chat_id, at, sid>>}]

RECURSIVE ApplyChunks(_, _, _, _)
\* while let Ok(chunk) = task.rx.try_recv() over the chunks the channel holds
ApplyChunks(st, chat_id, sid, chunks) ==
    IF chunks = <<>> THEN st
    ELSE ApplyChunks(ApplyChunk(st, chat_id, sid, Head(chunks)), chat_id, sid, Tail(chunks))

RECURSIVE DrainTasks(_, _, _)
\* the try_recv loops of the tasks, in the order the HashMap yields them
DrainTasks(st, order, tasks) ==
    IF order = <<>> THEN st
    ELSE LET id == Head(order)
             sid == tasks[id]
         IN  DrainTasks(ApplyChunks(st, id, sid, streams[sid].queue), Tail(order), tasks)

\* the orders in which a HashMap may yield its keys
Orders(S) == {o \in [1..Cardinality(S) -> S] : \A i, j \in 1..Cardinality(S) : o[i] = o[j] => i = j}

\* process_stream up to the point where try_recv has returned Empty for every
\* task: each channel is drained of what it holds.  The producers run on other
\* threads of the runtime, so they may still send or finish before the
\* is_closed checks of ProcessFinish.
ProcessDrain ==
    /\ pc = "process"
    /\ \E order \in Orders(DOMAIN stream_tasks) :
         LET st0 == [chats |-> chats, processed_chunks |-> <<>>,
                     need_rebuild_cache |-> need_rebuild_cache,
                     content_updated |-> FALSE,
                     truncated_messages |-> truncated_messages,
                     appended |-> appended]
             st == DrainTasks(st0, order, stream_tasks)
             live == {stream_tasks[id] : id \in DOMAIN stream_tasks}
         IN  /\ chats' = st.chats
             /\ need_rebuild_cache' = st.need_rebuild_cache
             /\ truncated_messages' = st.truncated_messages
             /\ appended' = st.appended
             /\ ps' = [processed_chunks |-> st.processed_chunks,
                       content_updated |-> st.content_updated]
             /\ streams' = [s \in 1..Len(streams) |->
                              IF s \in live
                              THEN [streams[s] EXCEPT !.queue = <<>>,
                                                      !.drained = @ \o streams[s].queue]
                              ELSE streams[s]]
    /\ pc' = "closed"
    /\ UNCHANGED <<mode, current_chat, sidebar_visible, selected_sidebar_idx,
                   chat_scroll, max_chat_scroll, cursor_line, last_width, line_cache,
                   line_to_message, focus, stream_tasks, code_blocks, display_len,
                   area, next_id, total_lines, viewport_height, fx>>

RECURSIVE NewCodeBlocks(_)
\* new_code_blocks: one scan per processed chunk
NewCodeBlocks(processed_chunks) ==
    IF processed_chunks = <<>> THEN <<>>
    ELSE ParseCodeBlocksHelper(Head(processed_chunks)[1], Head(processed_chunks)[2])
         \o NewCodeBlocks(Tail(processed_chunks))

\* the rest of process_stream: the is_closed checks, the removal of the closed
\* tasks (which drops their Receivers), the code block scan and the jump
ProcessFinish ==
    /\ pc = "closed"
    /\ LET to_remove == {id \in DOMAIN stream_tasks : IsClosed(streams[stream_tasks[id]])}
           gone == {stream_tasks[id] : id \in to_remove}
       IN  /\ chats' = [i \in 1..Len(chats) |->
                          IF chats[i].id \in to_remove /\ FindChat(chats, chats[i].id) = i
                          THEN [chats[i] EXCEPT !.streaming = FALSE]
                          ELSE chats[i]]
           /\ stream_tasks' = [id \in (DOMAIN stream_tasks) \ to_remove |-> stream_tasks[id]]
           /\ streams' = [s \in 1..Len(streams) |->
                            IF s \in gone THEN [streams[s] EXCEPT !.rx_alive = FALSE]
                            ELSE streams[s]]
    /\ code_blocks' = code_blocks \o NewCodeBlocks(ps.processed_chunks)
    /\ IF ps.content_updated
       THEN /\ cursor_line' = JumpCursor(line_cache)
            /\ chat_scroll' = U16_MAX
       ELSE UNCHANGED <<cursor_line, chat_scroll>>
    /\ pc' = "draw"
    /\ UNCHANGED <<mode, current_chat, sidebar_visible, selected_sidebar_idx,
                   max_chat_scroll, last_width, line_cache, truncated_messages,
                   need_rebuild_cache, line_to_message, focus, display_len,
                   area, next_id, ps, total_lines, viewport_height, appended, fx>>

(***************************************************************************)
(* ui::draw and ui::draw_chat                                              *)
(***************************************************************************)

\* str::trim().is_empty() of a whole message: line feeds are white space too
IsBlank(content) == \A i \in 1..Len(content) : content[i] \in SpaceChars \cup {NL}

\* chat.messages.iter().rev().find(|m| m.role != "system"), as an Option
LastVisible(messages) ==
    IF \E i \in 1..Len(messages) : messages[i].role # "system"
    THEN Some(messages[CHOOSE i \in 1..Len(messages) :
                         /\ messages[i].role # "system"
                         /\ \A j \in (i+1)..Len(messages) : messages[j].role = "system"])
    ELSE None

\* show_loading of draw_chat
ShowLoading(messages) ==
    LET last == LastVisible(messages)
    IN  IF last = None THEN TRUE
        ELSE last[1].role = "assistant" /\ IsBlank(last[1].content)

\* the mutant of ClampCursor that leaves the cursor where the keys put it
ClampCursorNever(cursor, total) == cursor

\* if total_lines > 0 && app.cursor_line >= total_lines { ... }
ClampCursor(cursor, total) ==
    IF total > 0 /\ cursor >= total THEN SatSub(total, 1) ELSE cursor

\* the mutant of ClampScroll without the final min with max_chat_scroll
ClampScrollNoMin(cursor, scroll, total, vh) ==
    LET max_scroll == SatSub(total, vh)
        s1 == IF scroll = U16_MAX \/ scroll > max_scroll THEN max_scroll % U16_MOD
              ELSE scroll
    IN  IF cursor < s1 THEN cursor % U16_MOD
        ELSE IF cursor >= s1 + vh THEN SatSub(cursor + 1, vh) % U16_MOD
        ELSE s1

\* the chat_scroll draw_chat leaves: the follow-bottom value or a too large
\* offset becomes max_scroll, the cursor is brought into view, and the result
\* is capped by max_chat_scroll
ClampScroll(cursor, scroll, total, vh) ==
    LET max_scroll == SatSub(total, vh)
        s1 == IF scroll = U16_MAX \/ scroll > max_scroll THEN max_scroll % U16_MOD
              ELSE scroll
        s2 == IF cursor < s1 THEN cursor % U16_MOD
              ELSE IF cursor >= s1 + vh THEN SatSub(cursor + 1, vh) % U16_MOD
              ELSE s1
    IN  Min(s2, max_scroll % U16_MOD)

\* the modes in which ui::draw calls draw_chat
ChatModes == {"Normal", "Insert", "Command"}

\* the wrap width and the block width draw_chat takes from the chat pane
Dims == [text_width |-> SatSub(area.width, 4), block_width |-> area.width]

\* viewport_height of draw_chat
ViewportHeight == Max(SatSub(area.height, 20), 1)

\* the mutant of Document that keeps the trailing separator
DocumentNoPop(messages, is_streaming, cache) ==
    LET flat == Flatten(messages, cache, 1, 1)
        n == Len(flat.lines)
        loading == is_streaming /\ ShowLoading(messages)
    IN  [n |-> n, map |-> SubSeq(flat.map, 1, n),
         total |-> n + (IF loading THEN 1 ELSE 0)]

\* what draw_chat lays out from the cache: n lines of text content with their
\* line_to_message map, and total_lines, which counts the loading line too
Document(messages, is_streaming, cache) ==
    LET flat == Flatten(messages, cache, 1, 1)
        pop == ~is_streaming /\ flat.lines # <<>> /\ SpansEmpty(flat.lines[Len(flat.lines)])
        n == IF pop THEN Len(flat.lines) - 1 ELSE Len(flat.lines)
        loading == is_streaming /\ ShowLoading(messages)
    IN  [n |-> n, map |-> SubSeq(flat.map, 1, n),
         total |-> n + (IF loading THEN 1 ELSE 0)]

\* draw_chat for a valid chat
\* the mutant of RebuiltCache without app.line_cache.clear()
RebuiltCacheAppended(old_cache, built_cache) == old_cache \o built_cache

\* app.line_cache.clear() followed by one push per message
RebuiltCache(old_cache, built_cache) == built_cache

\* draw_chat rebuilds the cache in this frame
Rebuilds == need_rebuild_cache \/ Dims.text_width # last_width

DrawChatValid ==
    LET messages == chats[current_chat + 1].messages
        is_streaming == chats[current_chat + 1].streaming
        rebuild == Rebuilds
        built == BuildCache(messages, 1, truncated_messages, Dims)
        cache == IF rebuild THEN RebuiltCache(line_cache, built.cache) ELSE line_cache
        doc == Document(messages, is_streaming, cache)
        vh == ViewportHeight
        cursor == ClampCursor(cursor_line, doc.total)
    IN  /\ last_width' = IF rebuild THEN Dims.text_width ELSE last_width
        /\ line_cache' = cache
        /\ code_blocks' = IF rebuild THEN built.blocks ELSE code_blocks
        /\ need_rebuild_cache' = IF rebuild THEN FALSE ELSE need_rebuild_cache
        /\ line_to_message' = doc.map
        /\ display_len' = doc.n
        /\ total_lines' = doc.total
        /\ viewport_height' = vh
        /\ cursor_line' = cursor
        /\ max_chat_scroll' = SatSub(doc.total, vh) % U16_MOD
        /\ chat_scroll' = ClampScroll(cursor, chat_scroll, doc.total, vh)

\* terminal.draw(|f| ui::draw(f, app)) of run_app
Draw ==
    /\ pc = "draw"
    /\ pc' = "key"
    /\ IF mode \in ChatModes
       THEN IF HasValidChat
            THEN DrawChatValid
            ELSE /\ display_len' = 0
                 /\ UNCHANGED <<last_width, line_cache, code_blocks, need_rebuild_cache,
                                line_to_message, total_lines, viewport_height,
                                cursor_line, max_chat_scroll, chat_scroll>>
       ELSE UNCHANGED <<last_width, line_cache, code_blocks, need_rebuild_cache,
                        line_to_message, total_lines, viewport_height,
                        cursor_line, max_chat_scroll, chat_scroll, display_len>>
    /\ ps' = PsIdle
    /\ UNCHANGED <<mode, chats, current_chat, sidebar_visible, selected_sidebar_idx,
                   truncated_messages, focus, stream_tasks,
                   streams, area, next_id, appended, fx>>

\* the terminal is resized: the chat pane gets another size.  draw_chat alone
\* reads the size, so a resize is taken when the next frame is about to be drawn.
Resize ==
    /\ pc = "draw"
    /\ \E a \in Areas : a # area /\ area' = a
    /\ UNCHANGED <<appVars, streams, next_id, pc, ps, total_lines, viewport_height,
                   appended, fx>>

(***************************************************************************)
(* handle_key.  Every key action is one pass of event::poll / event::read  *)
(* / handle_key at the end of an iteration of run_app.                     *)
(***************************************************************************)

\* what no key handler writes
KeyStep ==
    /\ pc = "key"
    /\ pc' = "process"
    /\ UNCHANGED <<max_chat_scroll, last_width, display_len, area, ps,
                   total_lines, viewport_height, appended>>

\* a key whose handler reads and writes only the fields above
KeyFrame == KeyStep /\ UNCHANGED fx

\* event::poll times out: no key in this iteration
PollTimeout ==
    /\ KeyFrame
    /\ UNCHANGED <<appVars, streams, next_id>>

\* the bound on saturating_add: a key moves the cursor down only while it is
\* less than MaxOvershoot lines past the last frame's document
CanMoveDown == cursor_line < total_lines + MaxOvershoot

\* the mutant of KeyDown that moves the sidebar selection without a bound
KeyDownUnbounded ==
    /\ KeyFrame /\ mode = "Normal"
    /\ IF focus = "Sidebar"
       THEN /\ selected_sidebar_idx' = selected_sidebar_idx + 1
            /\ UNCHANGED cursor_line
       ELSE /\ CanMoveDown
            /\ cursor_line' = cursor_line + 1
            /\ UNCHANGED selected_sidebar_idx
    /\ UNCHANGED <<mode, chats, current_chat, sidebar_visible, chat_scroll, line_cache,
                   truncated_messages, need_rebuild_cache, line_to_message, focus,
                   stream_tasks, code_blocks, streams, next_id>>

\* Normal mode, 'j' / Down
KeyDown ==
    /\ KeyFrame /\ mode = "Normal"
    /\ IF focus = "Sidebar"
       THEN /\ selected_sidebar_idx' =
                 IF selected_sidebar_idx < Len(chats) THEN selected_sidebar_idx + 1
                 ELSE selected_sidebar_idx
            /\ UNCHANGED cursor_line
       ELSE /\ CanMoveDown
            /\ cursor_line' = cursor_line + 1
            /\ UNCHANGED selected_sidebar_idx
    /\ UNCHANGED <<mode, chats, current_chat, sidebar_visible, chat_scroll, line_cache,
                   truncated_messages, need_rebuild_cache, line_to_message, focus,
                   stream_tasks, code_blocks, streams, next_id>>

\* Normal mode, 'k' / Up
KeyUp ==
    /\ KeyFrame /\ mode = "Normal"
    /\ IF focus = "Sidebar"
       THEN /\ selected_sidebar_idx' =
                 IF selected_sidebar_idx > 0 THEN selected_sidebar_idx - 1
                 ELSE selected_sidebar_idx
            /\ UNCHANGED cursor_line
       ELSE /\ cursor_line' = SatSub(cursor_line, 1)
            /\ UNCHANGED selected_sidebar_idx
    /\ UNCHANGED <<mode, chats, current_chat, sidebar_visible, chat_scroll, line_cache,
                   truncated_messages, need_rebuild_cache, line_to_message, focus,
                   stream_tasks, code_blocks, streams, next_id>>

\* (viewport_height.max(1) / 2).max(1)
HalfPage == Max(Max(KEY_VIEWPORT_HEIGHT, 1) \div 2, 1)

\* Normal mode, Ctrl-d
KeyCtrlD ==
    /\ KeyFrame /\ mode = "Normal"
    /\ cursor_line' = IF focus = "Chat"
                      THEN Min(cursor_line + HalfPage, SatSub(display_len, 1))
                      ELSE cursor_line
    /\ UNCHANGED <<mode, chats, current_chat, sidebar_visible, selected_sidebar_idx,
                   chat_scroll, line_cache, truncated_messages, need_rebuild_cache,
                   line_to_message, focus, stream_tasks, code_blocks, streams, next_id>>

\* Normal mode, Ctrl-u
KeyCtrlU ==
    /\ KeyFrame /\ mode = "Normal"
    /\ cursor_line' = IF focus = "Chat" THEN SatSub(cursor_line, HalfPage)
                      ELSE cursor_line
    /\ UNCHANGED <<mode, chats, current_chat, sidebar_visible, selected_sidebar_idx,
                   chat_scroll, line_cache, truncated_messages, need_rebuild_cache,
                   line_to_message, focus, stream_tasks, code_blocks, streams, next_id>>

\* Normal mode, 'g'
KeyTop ==
    /\ KeyFrame /\ mode = "Normal"
    /\ IF focus = "Sidebar"
       THEN selected_sidebar_idx' = 0 /\ UNCHANGED cursor_line
       ELSE cursor_line' = 0 /\ UNCHANGED selected_sidebar_idx
    /\ UNCHANGED <<mode, chats, current_chat, sidebar_visible, chat_scroll, line_cache,
                   truncated_messages, need_rebuild_cache, line_to_message, focus,
                   stream_tasks, code_blocks, streams, next_id>>

\* Normal mode, 'G'
KeyBottom ==
    /\ KeyFrame /\ mode = "Normal"
    /\ IF focus = "Sidebar"
       THEN /\ selected_sidebar_idx' = Len(chats)
            /\ UNCHANGED <<cursor_line, chat_scroll>>
       ELSE /\ cursor_line' = JumpCursor(line_cache)
            /\ chat_scroll' = U16_MAX
            /\ UNCHANGED selected_sidebar_idx
    /\ UNCHANGED <<mode, chats, current_chat, sidebar_visible, line_cache,
                   truncated_messages, need_rebuild_cache, line_to_message, focus,
                   stream_tasks, code_blocks, streams, next_id>>

\* Normal mode, Tab
KeyTab ==
    /\ KeyFrame /\ mode = "Normal"
    /\ focus' = IF sidebar_visible
                THEN (IF focus = "Sidebar" THEN "Chat" ELSE "Sidebar")
                ELSE focus
    /\ UNCHANGED <<mode, chats, current_chat, sidebar_visible, selected_sidebar_idx,
                   chat_scroll, cursor_line, line_cache, truncated_messages,
                   need_rebuild_cache, line_to_message, stream_tasks, code_blocks,
                   streams, next_id>>

\* Normal mode, PageUp
KeyPageUp ==
    /\ KeyFrame /\ mode = "Normal"
    /\ cursor_line' = IF ~sidebar_visible THEN SatSub(cursor_line, KEY_VIEWPORT_HEIGHT)
                      ELSE cursor_line
    /\ UNCHANGED <<mode, chats, current_chat, sidebar_visible, selected_sidebar_idx,
                   chat_scroll, line_cache, truncated_messages, need_rebuild_cache,
                   line_to_message, focus, stream_tasks, code_blocks, streams, next_id>>

\* Normal mode, PageDown
KeyPageDown ==
    /\ KeyFrame /\ mode = "Normal"
    /\ IF ~sidebar_visible
       THEN /\ CanMoveDown
            /\ cursor_line' = cursor_line + KEY_VIEWPORT_HEIGHT
       ELSE UNCHANGED cursor_line
    /\ UNCHANGED <<mode, chats, current_chat, sidebar_visible, selected_sidebar_idx,
                   chat_scroll, line_cache, truncated_messages, need_rebuild_cache,
                   line_to_message, focus, stream_tasks, code_blocks, streams, next_id>>

\* Normal mode, 'o'
KeySettings ==
    /\ KeyFrame /\ mode = "Normal"
    /\ mode' = "Settings"
    /\ UNCHANGED <<chats, current_chat, sidebar_visible, selected_sidebar_idx,
                   chat_scroll, cursor_line, line_cache, truncated_messages,
                   need_rebuild_cache, line_to_message, focus, stream_tasks,
                   code_blocks, streams, next_id>>

\* App::toggle_message_truncation: the set after the toggle
ToggleTruncation(trunc_set, msg_idx) ==
    IF msg_idx \in trunc_set THEN trunc_set \ {msg_idx} ELSE trunc_set \cup {msg_idx}

\* Normal mode, 'e'
KeyToggleTruncation ==
    /\ KeyFrame /\ mode = "Normal"
    /\ IF cursor_line < Len(line_to_message)
       THEN /\ truncated_messages' =
                 ToggleTruncation(truncated_messages, line_to_message[cursor_line + 1][1])
            /\ need_rebuild_cache' = TRUE
       ELSE UNCHANGED <<truncated_messages, need_rebuild_cache>>
    /\ UNCHANGED <<mode, chats, current_chat, sidebar_visible, selected_sidebar_idx,
                   chat_scroll, cursor_line, line_cache, line_to_message, focus,
                   stream_tasks, code_blocks, streams, next_id>>

\* Normal mode, 'i'
KeyInsert ==
    /\ KeyFrame /\ mode = "Normal"
    /\ mode' = "Insert"
    /\ UNCHANGED <<chats, current_chat, sidebar_visible, selected_sidebar_idx,
                   chat_scroll, cursor_line, line_cache, truncated_messages,
                   need_rebuild_cache, line_to_message, focus, stream_tasks,
                   code_blocks, streams, next_id>>

\* Chat { id: Uuid::new_v4(), messages: Vec::new(), streaming: false, .. }
NewChat(id) == [id |-> id, messages |-> <<>>, streaming |-> FALSE]

\* App::create_new_chat as called by 'n' in Normal mode, but for chat.model
CreateNewChat ==
    /\ mode = "Normal"
    /\ Len(chats) < MaxChats /\ next_id <= MaxIds
    /\ chats' = Append(chats, NewChat(next_id))
    /\ next_id' = next_id + 1
    /\ current_chat' = Len(chats)
    /\ selected_sidebar_idx' = Len(chats)
    /\ chat_scroll' = U16_MAX
    /\ cursor_line' = 0
    /\ need_rebuild_cache' = TRUE
    /\ truncated_messages' = {}
    /\ UNCHANGED <<mode, sidebar_visible, line_cache, line_to_message, focus,
                   stream_tasks, code_blocks, streams>>

\* Normal mode, 'n': App::create_new_chat
KeyNewChat == KeyFrame /\ CreateNewChat

\* 's' in Normal and Settings mode: App::toggle_sidebar
KeyToggleSidebar ==
    /\ KeyFrame /\ mode \in {"Normal", "Settings"}
    /\ sidebar_visible' = ~sidebar_visible
    /\ focus' = IF ~sidebar_visible THEN "Sidebar" ELSE "Chat"
    /\ UNCHANGED <<mode, chats, current_chat, selected_sidebar_idx, chat_scroll,
                   cursor_line, line_cache, truncated_messages, need_rebuild_cache,
                   line_to_message, stream_tasks, code_blocks, streams, next_id>>

\* Vec::remove: the sequence without its element at the 0-based index i
RemoveAt(seq, i) == SubSeq(seq, 1, i) \o SubSeq(seq, i + 2, Len(seq))

\* Normal mode, 'd': delete the chat selected in the sidebar
KeyDeleteChat ==
    /\ KeyFrame /\ mode = "Normal"
    /\ IF sidebar_visible /\ selected_sidebar_idx < Len(chats)
       THEN LET rest == RemoveAt(chats, selected_sidebar_idx)
            IN  /\ chats' = rest
                /\ cursor_line' = 0
                /\ need_rebuild_cache' = TRUE
                /\ IF rest = <<>>
                   THEN /\ current_chat' = 0
                        /\ selected_sidebar_idx' = 0
                        /\ line_cache' = <<>>
                        /\ line_to_message' = <<>>
                   ELSE /\ selected_sidebar_idx' =
                             IF selected_sidebar_idx >= Len(rest) THEN Len(rest) - 1
                             ELSE selected_sidebar_idx
                        /\ current_chat' = selected_sidebar_idx'
                        /\ UNCHANGED <<line_cache, line_to_message>>
       ELSE UNCHANGED <<chats, cursor_line, need_rebuild_cache, current_chat,
                        selected_sidebar_idx, line_cache, line_to_message>>
    /\ UNCHANGED <<mode, sidebar_visible, chat_scroll, truncated_messages, focus,
                   stream_tasks, code_blocks, streams, next_id>>

\* the Enter handler of Normal mode, but for current_model
EnterSidebar ==
    /\ mode = "Normal"
    /\ IF focus = "Sidebar" /\ selected_sidebar_idx < Len(chats)
       THEN /\ current_chat' = selected_sidebar_idx
            /\ cursor_line' = JumpCursor(line_cache)
            /\ chat_scroll' = U16_MAX
            /\ need_rebuild_cache' = TRUE
            /\ UNCHANGED mode
       ELSE /\ mode' = IF focus = "Sidebar" /\ selected_sidebar_idx = Len(chats)
                       THEN "Settings" ELSE mode
            /\ UNCHANGED <<current_chat, cursor_line, chat_scroll, need_rebuild_cache>>
    /\ UNCHANGED <<chats, sidebar_visible, selected_sidebar_idx, line_cache,
                   truncated_messages, line_to_message, focus, stream_tasks,
                   code_blocks, streams, next_id>>

\* Normal mode, Enter: switch to the chat selected in the sidebar, or open the
\* settings from the entry below the chats
KeyEnterSidebar == KeyFrame /\ EnterSidebar

\* Esc in Insert and Settings mode
KeyEsc ==
    /\ KeyFrame /\ mode \in {"Insert", "Settings"}
    /\ mode' = "Normal"
    /\ UNCHANGED <<chats, current_chat, sidebar_visible, selected_sidebar_idx,
                   chat_scroll, cursor_line, line_cache, truncated_messages,
                   need_rebuild_cache, line_to_message, focus, stream_tasks,
                   code_blocks, streams, next_id>>

\* the mutant of SubmitRefusedStreaming that never refuses
SubmitRefusedNever(chat) == FALSE

\* if chat.streaming { app.mode = Mode::Normal; return Ok(()); }
SubmitRefusedStreaming(chat) == chat.streaming

\* chat.messages.push(Message::new(Role::User, &content)) of add_user_message
AddUserMessage(messages, content) == Append(messages, Message("user", content))

\* the Enter handler of Insert mode with msg the typed input.  accepted says
\* that the chat's model names a provider (or custom model) for which a key is
\* found.
Submit(msg, accepted) ==
    /\ mode = "Insert"
    /\ mode' = "Normal"
    /\ IF HasValidChat /\ ~SubmitRefusedStreaming(chats[current_chat + 1]) /\ accepted
       THEN LET chat == chats[current_chat + 1]
                msg_idx == Len(chat.messages)
                messages == AddUserMessage(chat.messages, msg)
            IN  /\ Len(chat.messages) < MaxMsgs /\ Len(streams) < MaxStreams
                /\ chats' = [chats EXCEPT ![current_chat + 1] =
                               [@ EXCEPT !.messages = messages, !.streaming = TRUE]]
                /\ truncated_messages' = truncated_messages \cup {msg_idx}
                /\ code_blocks' = code_blocks \o ParseCodeBlocksHelper(msg_idx, msg)
                /\ need_rebuild_cache' = TRUE
                /\ stream_tasks' = InsertTask(stream_tasks, chat.id, Len(streams) + 1)
                /\ streams' = StartStreamChannels(streams, stream_tasks, chat.id,
                                                  Len(messages))
                /\ cursor_line' = JumpCursor(line_cache)
                /\ chat_scroll' = U16_MAX
       ELSE UNCHANGED <<chats, truncated_messages, code_blocks, need_rebuild_cache,
                        stream_tasks, streams, cursor_line, chat_scroll>>
    /\ UNCHANGED <<current_chat, sidebar_visible, selected_sidebar_idx, line_cache,
                   line_to_message, focus, next_id>>

\* Insert mode, Enter
KeySubmit(msg, accepted) == KeyFrame /\ Submit(msg, accepted)

\* the keys that only move the cursor of the chat pane or fold a message
ViewKeys ==
    \/ KeyCtrlD \/ KeyCtrlU \/ KeyTop \/ KeyBottom \/ KeyPageUp \/ KeyPageDown
    \/ KeyToggleTruncation

\* the keys that select, create, delete and switch chats and change the mode
ChatKeys ==
    \/ KeyDown \/ KeyUp \/ KeyTab \/ KeySettings \/ KeyInsert \/ KeyNewChat
    \/ KeyToggleSidebar \/ KeyDeleteChat \/ KeyEnterSidebar \/ KeyEsc

\* the producer tasks.  They run concurrently with the render loop; the loop
\* reads a channel in process_stream only, so a send or a return of a task
\* during the draw or the key handling is taken when process_stream begins.
ProducerTurn == pc \in {"process", "closed"}

\* a producer streams the next delta of Reply, or returns
Producer ==
    /\ ProducerTurn
    /\ \/ \E sid \in 1..Len(streams) :
            /\ Len(streams[sid].sent) < Len(Reply)
            /\ ProducerSend(sid, Reply[Len(streams[sid].sent) + 1])
       \/ \E sid \in 1..Len(streams) : ProducerEnd(sid)

\* process_stream and the draw of one iteration of run_app
Frame == ProcessDrain \/ ProcessFinish \/ Draw

(***************************************************************************)
(* Spec: the registry and the chats under submits, new chats, deletions    *)
(* and concurrent producers.  The focus stays on the chat pane, so the     *)
(* chat that 'd' deletes is the one that was created or left last, and the *)
(* terminal keeps its size.  SpecView adds the other keys of Normal mode.  *)
(***************************************************************************)
RenderLoop ==
    \/ Frame
    \/ PollTimeout
    \/ KeyInsert \/ KeyNewChat \/ KeyDeleteChat \/ KeyEsc
    \/ \E msg \in UserInputs, accepted \in BOOLEAN : KeySubmit(msg, accepted)

Next == RenderLoop \/ Producer

Spec == Init /\ [][Next]_vars

\* SpecLive: a render loop that keeps running (run_app leaves its loop on an
\* I/O error only, and event::poll returns after 50 ms at most) with the keys
\* that submit.  Nothing is assumed of the producers or of the user.
RenderLoopLive ==
    \/ Frame
    \/ PollTimeout
    \/ KeyInsert \/ KeyNewChat \/ KeyEsc
    \/ \E accepted \in BOOLEAN : KeySubmit(<<"a">>, accepted)

NextLive == RenderLoopLive \/ Producer

\* The loop has a step to take in every state: process_stream, terminal.draw
\* and the poll follow one another and each is defined for every state, and
\* each changes pc.  Weak fairness of the loop is therefore the statement
\* that the loop takes steps for ever; it is written in that form, and with
\* weak fairness of the poll that returns without a key.
LoopRuns == []<><<RenderLoopLive>>_vars

SpecLive == Init /\ [][NextLive]_vars /\ LoopRuns /\ WF_vars(PollTimeout)

(***************************************************************************)
(* SpecFresh: App::new, which creates one chat without messages, followed  *)
(* by start_stream for that chat.  The producer sends any fragments and    *)
(* the render loop runs without keys.                                      *)
(***************************************************************************)
InitFresh ==
    /\ mode = "Normal"
    /\ chats = <<NewChat(1)>>
    /\ current_chat = 0
    /\ sidebar_visible = TRUE
    /\ selected_sidebar_idx = 0
    /\ chat_scroll = U16_MAX
    /\ max_chat_scroll = 0
    /\ cursor_line = 0
    /\ last_width = 0
    /\ line_cache = <<>>
    /\ truncated_messages = {}
    /\ need_rebuild_cache = TRUE
    /\ line_to_message = <<>>
    /\ focus = "Chat"
    /\ stream_tasks = InsertTask(<<>>, 1, 1)
    /\ code_blocks = <<>>
    /\ display_len = 0
    /\ streams = StartStreamChannels(<<>>, <<>>, 1, 0)
    /\ area = [width |-> 5, height |-> 21]
    /\ next_id = 2
    /\ pc = "process"
    /\ ps = PsIdle
    /\ total_lines = 0
    /\ viewport_height = 1
    /\ appended = {}
    /\ fx = <<>>

\* a producer sends any fragment, or returns
FreeProducer ==
    /\ ProducerTurn
    /\ \/ \E sid \in 1..Len(streams), f \in Fragments : ProducerSend(sid, f)
       \/ \E sid \in 1..Len(streams) : ProducerEnd(sid)

NextFresh == Frame \/ PollTimeout \/ FreeProducer

SpecFresh == InitFresh /\ [][NextFresh]_vars

\* the stream is the registry's entry for its chat
Registered(sid) ==
    /\ streams[sid].chat_id \in DOMAIN stream_tasks
    /\ stream_tasks[streams[sid].chat_id] = sid

\* C1: in a conversation that starts without messages and has one registered
\* stream, once process_stream has drained fragments f1..fn, in however many
\* calls, the conversation holds exactly one message, an assistant message
\* whose content is f1 + ... + fn.
C1_AppendMonotone ==
    streams[1].drained # <<>> =>
        chats[1].messages = <<Message("assistant", Concat(streams[1].drained))>>

\* three fragments were drained in at least two calls of process_stream
C1_Witness ==
    /\ Len(streams[1].drained) = MaxFrags
    /\ Len(ps.processed_chunks) = 1
    /\ Len(chats[1].messages) = 1

\* C2: a stream is deregistered only when its channel is closed and
\* exhausted: every fragment the producer sent has been taken by try_recv
\* when the stream leaves stream_tasks.
C2_NoFragmentLost ==
    \A sid \in 1..Len(streams) :
        ~streams[sid].rx_alive => streams[sid].drained = streams[sid].sent

\* C5: the fragments of a stream go to the assistant message that the stream
\* created behind the user message of its submit, and to no other: while the
\* conversation exists, that message holds the stream's fragments and nothing
\* else.
C5_OwnMessageOnly ==
    /\ \A t \in appended : t[2] = streams[t[3]].base
    /\ \A sid \in 1..Len(streams) :
         LET ci == FindChat(chats, streams[sid].chat_id)
             base == streams[sid].base
         IN  (ci # 0 /\ streams[sid].drained # <<>>) =>
                 /\ base >= 1
                 /\ Len(chats[ci].messages) > base
                 /\ chats[ci].messages[base].role = "user"
                 /\ chats[ci].messages[base + 1] =
                        Message("assistant", Concat(streams[sid].drained))

\* the second stream of a conversation has put a fragment behind the first
\* stream's completed message and the second user message
C5_Witness ==
    \E sid \in 1..Len(streams) :
        /\ streams[sid].base = 3
        /\ streams[sid].drained # <<>>
        /\ FindChat(chats, streams[sid].chat_id) # 0
        /\ Len(chats[FindChat(chats, streams[sid].chat_id)].messages) = 4

\* C6: no step replaces an entry of stream_tasks, whose chat, if it still
\* exists, has streaming = true; Enter in Insert mode on such a chat adds no
\* message and registers no stream.
C6_OneStreamPerChat ==
    [][/\ \A id \in DOMAIN stream_tasks :
            id \in DOMAIN stream_tasks' => stream_tasks'[id] = stream_tasks[id]
       /\ \A id \in DOMAIN stream_tasks' :
            FindChat(chats', id) # 0 => chats'[FindChat(chats', id)].streaming
       /\ (/\ mode = "Insert" /\ mode' = "Normal" /\ HasValidChat
           /\ chats[current_chat + 1].streaming)
          => (chats' = chats /\ stream_tasks' = stream_tasks /\ streams' = streams)
      ]_vars

\* a conversation got its second stream while the first one is gone
C6_Witness ==
    \E s1, s2 \in 1..Len(streams) :
        /\ s1 < s2 /\ streams[s1].chat_id = streams[s2].chat_id
        /\ Registered(s2) /\ ~streams[s1].rx_alive

\* the streams whose conversation is deleted
Orphans == {sid \in 1..Len(streams) : FindChat(chats, streams[sid].chat_id) = 0}

\* C8: process_stream takes the fragments of a stream whose conversation is
\* deleted out of the channel and changes no conversation for them, and it
\* removes the stream from stream_tasks when its producer has closed.
C8_MissingChatNoOp ==
    [][/\ (pc = "process" /\ pc' = "closed") =>
            /\ \A sid \in Orphans : Registered(sid) =>
                 /\ streams'[sid].queue = <<>>
                 /\ streams'[sid].drained = streams[sid].drained \o streams[sid].queue
            /\ Len(chats') = Len(chats)
            /\ \A i \in 1..Len(chats) :
                 (chats[i].id \notin DOMAIN stream_tasks
                    \/ streams[stream_tasks[chats[i].id]].queue = <<>>)
                 => chats'[i] = chats[i]
       /\ (pc = "closed" /\ pc' = "draw") =>
            /\ \A sid \in Orphans :
                 (Registered(sid) /\ ~streams[sid].tx_alive)
                 => streams[sid].chat_id \notin DOMAIN stream_tasks'
            /\ Len(chats') = Len(chats)
            /\ \A i \in 1..Len(chats) :
                 (chats[i].id \notin DOMAIN stream_tasks
                    \/ streams[stream_tasks[chats[i].id]].tx_alive)
                 => chats'[i] = chats[i]
      ]_vars

\* a fragment of a deleted conversation was consumed, its stream is
\* deregistered, and another conversation is left
C8_Witness ==
    \E sid \in Orphans :
        /\ streams[sid].drained # <<>>
        /\ ~streams[sid].rx_alive
        /\ chats # <<>>

\* the records of code_blocks with message index m, in their order
RecordsOf(blocks, m) == SelectSeq(blocks, LAMBDA r : r[1] = m)

\* the text of message m as the last chunk pushed for m recorded it
LastContent(processed_chunks, m) ==
    LET last == CHOOSE k \in 1..Len(processed_chunks) :
                    /\ processed_chunks[k][1] = m
                    /\ \A j \in (k+1)..Len(processed_chunks) : processed_chunks[j][1] # m
    IN  processed_chunks[last][2]

\* C9: when a call of process_stream that changed message m has returned, the
\* records of code_blocks for m are the blocks of one scan of m's current
\* text, in source order.
C9_RecordsReplaced ==
    (pc = "draw" /\ ps.processed_chunks # <<>>) =>
        \A k \in 1..Len(ps.processed_chunks) :
            LET m == ps.processed_chunks[k][1]
            IN  RecordsOf(code_blocks, m)
                  = ParseCodeBlocksHelper(m, LastContent(ps.processed_chunks, m))

(***************************************************************************)
(* SpecParse: parse_code_blocks_helper on texts made of well-formed fenced *)
(* blocks.  fx.input lists the blocks of the text, fx.text is the text and *)
(* fx.blocks what the function returned for it.                            *)
(***************************************************************************)

\* the bound on the number of blocks of a text
MaxBlocks == 2

\* language tags: none, "py" and "c++"
Tags == {<<>>, <<"p", "y">>, <<"c", PLUS, PLUS>>}

\* the white space behind the tag of an opening fence
Pads == {<<>>, <<SP>>}

\* block bodies, as lists of lines: no line, "a", "a" / " b", one empty line
Bodies == {<<>>, <<<<"a">>>>, <<<<"a">>, <<SP, "b">>>>, <<<<>>>>}

\* the plain text between, before and after blocks, as lists of lines
Plain == {<<<<"a">>>>}
OptPlain == Plain \cup {<<>>}

FencedBlocks == [tag : Tags, pad : Pads, body : Bodies]

\* the lines of one well-formed block
BlockLines(b) == <<Fence \o b.tag \o b.pad>> \o b.body \o <<Fence>>

RECURSIVE TextLines(_, _)
\* the lines of the blocks bs with the plain text sep between them
TextLines(bs, sep) ==
    IF bs = <<>> THEN <<>>
    ELSE IF Len(bs) = 1 THEN BlockLines(bs[1])
    ELSE BlockLines(bs[1]) \o sep \o TextLines(Tail(bs), sep)

ParseInputs ==
    {[input |-> bs, text |-> JoinNL(pre \o TextLines(bs, sep) \o post)] :
        bs \in UNION {[1..n -> FencedBlocks] : n \in 0..MaxBlocks},
        pre \in OptPlain, sep \in Plain, post \in OptPlain}

InitParse ==
    /\ AppInit
    /\ streams = <<>>
    /\ area = [width |-> 5, height |-> 21]
    /\ next_id = 1
    /\ pc = "process"
    /\ ps = PsIdle
    /\ total_lines = 0
    /\ viewport_height = 1
    /\ appended = {}
    /\ fx \in {[input |-> i.input, text |-> i.text, done |-> FALSE, blocks |-> <<>>] :
                 i \in ParseInputs}

\* self.parse_code_blocks_helper(msg_idx, &content) on the text
Extract ==
    /\ ~fx.done
    /\ fx' = [fx EXCEPT !.done = TRUE, !.blocks = ParseCodeBlocksHelper(0, fx.text)]
    /\ UNCHANGED <<appVars, envVars, pc, ps, total_lines, viewport_height, appended>>

NextParse == Extract

SpecParse == InitParse /\ [][NextParse]_vars

\* C10: for a text of N well-formed fenced blocks separated by plain text,
\* parse_code_blocks_helper returns N blocks, in source order, each with the
\* body of its block as content.
C10_FenceRoundTrip ==
    fx.done =>
        /\ Len(fx.blocks) = Len(fx.input)
        /\ \A k \in 1..Len(fx.input) :
             k <= Len(fx.blocks) => fx.blocks[k][2].content = JoinNL(fx.input[k].body)

(***************************************************************************)
(* SpecOpen: parse_code_blocks_helper on texts that end inside an open     *)
(* fence.  fx.input lists the well-formed blocks before the open one,      *)
(* fx.open is the open block: its opening fence and the lines after it,    *)
(* none of which is a closing fence.                                       *)
(***************************************************************************)

\* the lines after the opening fence: none, "a", an empty line and "a", a
\* line that looks like an opening fence and "a"
OpenBodies == {<<>>, <<<<"a">>>>, <<<<>>, <<"a">>>>, <<Fence \o <<"p", "y">>, <<"a">>>>}

OpenBlocks == [tag : Tags, pad : Pads, body : OpenBodies]

OpenInputs ==
    {[input |-> bs, open |-> ob,
      text |-> JoinNL(pre \o TextLines(bs, <<>>) \o mid
                          \o <<Fence \o ob.tag \o ob.pad>> \o ob.body)] :
        bs \in UNION {[1..n -> FencedBlocks] : n \in 0..(MaxBlocks - 1)},
        ob \in OpenBlocks, pre \in OptPlain, mid \in OptPlain}

InitOpen ==
    /\ AppInit
    /\ streams = <<>>
    /\ area = [width |-> 5, height |-> 21]
    /\ next_id = 1
    /\ pc = "process"
    /\ ps = PsIdle
    /\ total_lines = 0
    /\ viewport_height = 1
    /\ appended = {}
    /\ fx \in {[input |-> i.input, open |-> i.open, text |-> i.text,
                done |-> FALSE, blocks |-> <<>>] : i \in OpenInputs}

NextOpen == Extract

SpecOpen == InitOpen /\ [][NextOpen]_vars

\* C11: for a text that ends inside an open fence, parse_code_blocks_helper
\* returns, after the blocks that precede it, one block for the open fence,
\* and the content of that block is every line after the opening fence line.
C11_UnterminatedFence ==
    fx.done =>
        /\ Len(fx.blocks) = Len(fx.input) + 1
        /\ fx.blocks # <<>> =>
             fx.blocks[Len(fx.blocks)][2].content = JoinNL(fx.open.body)

(***************************************************************************)
(* SpecText: parse_code_blocks_helper and parse_message_segments on the    *)
(* same message text, for every text of at most MaxLines lines taken from  *)
(* TextLineSet.  fx.blocks is what the extractor returned, fx.segs what    *)
(* the splitter of the renderer returned.                                  *)
(***************************************************************************)

\* the bound on the number of lines of a text
MaxLines == 3

\* the lines of a text: "a", "py", the empty line, a bare fence, a fence with
\* the tag py, a fence with the tag c++, and a fence behind a space
TextLineSet ==
    {<<"a">>, <<"p", "y">>, <<>>, Fence, Fence \o <<"p", "y">>,
     Fence \o <<"c", PLUS, PLUS>>, <<SP>> \o Fence}

Texts == {JoinNL(ls) : ls \in UNION {[1..n -> TextLineSet] : n \in 0..MaxLines}}

InitText ==
    /\ AppInit
    /\ streams = <<>>
    /\ area = [width |-> 5, height |-> 21]
    /\ next_id = 1
    /\ pc = "process"
    /\ ps = PsIdle
    /\ total_lines = 0
    /\ viewport_height = 1
    /\ appended = {}
    /\ fx \in {[text |-> t, done |-> FALSE, blocks |-> <<>>,
                split |-> FALSE, segs |-> <<>>] : t \in Texts}

\* let segments = parse_message_segments(&msg.content) on the text
Split ==
    /\ ~fx.split
    /\ fx' = [fx EXCEPT !.split = TRUE, !.segs = ParseMessageSegments(fx.text)]
    /\ UNCHANGED <<appVars, envVars, pc, ps, total_lines, viewport_height, appended>>

NextText == Extract \/ Split

SpecText == InitText /\ [][NextText]_vars

\* the language tag and the content of the extracted blocks, in their order
BlockPairs(blocks) ==
    [k \in 1..Len(blocks) |->
        [language |-> blocks[k][2].language, content |-> blocks[k][2].content]]

\* the language tag and the content of the Code segments, in their order
CodePairs(segs) ==
    LET code == SelectSeq(segs, LAMBDA g : g.kind = "Code")
    IN  [k \in 1..Len(code) |->
            [language |-> code[k].language, content |-> code[k].content]]

\* C12: for every message text the blocks returned by
\* parse_code_blocks_helper are, in number, order, language tag and content,
\* the Code segments returned by parse_message_segments.
C12_ExtractorAgreesWithSplitter ==
    (fx.done /\ fx.split) => BlockPairs(fx.blocks) = CodePairs(fx.segs)

(***************************************************************************)
(* SpecView: the cursor and the scroll offset under the keys of Normal     *)
(* mode.  The user submits one message, LongWord, which wraps to more than *)
(* MAX_VISIBLE_LINES_PER_MESSAGE lines, and the reply is one fragment; the *)
(* focus moves with the sidebar toggle.                                    *)
(***************************************************************************)

\* the chat pane of SpecView: text width 1, viewport height 2
ViewArea == [width |-> 5, height |-> 22]

InitView == InitWith(ViewArea)

\* a producer sends its one fragment, or returns
ViewProducer ==
    /\ ProducerTurn
    /\ \/ \E sid \in 1..Len(streams) :
            /\ streams[sid].sent = <<>>
            /\ ProducerSend(sid, <<"a">>)
       \/ \E sid \in 1..Len(streams) : ProducerEnd(sid)

NextView ==
    \/ Frame
    \/ PollTimeout
    \/ KeyDown \/ KeyUp \/ KeyNewChat \/ KeyToggleSidebar \/ KeyDeleteChat
    \/ (KeyEnterSidebar /\ mode' = "Normal")
    \/ (streams = <<>> /\ KeyInsert)
    \/ ViewKeys
    \/ (streams = <<>> /\ KeySubmit(LongWord, TRUE))
    \/ ViewProducer

SpecView == InitView /\ [][NextView]_vars

\* total_lines as draw_chat would compute it for the displayed chat now
CurrentTotal ==
    LET chat == chats[current_chat + 1]
        built == BuildCache(chat.messages, 1, truncated_messages, Dims)
    IN  Document(chat.messages, chat.streaming, built.cache).total

\* draw_chat has just drawn the current chat
Rendered == pc = "key" /\ mode \in ChatModes /\ HasValidChat

C4_ScrollAlways ==
    HasValidChat => chat_scroll <= SatSub(CurrentTotal, ViewportHeight)

\* C4, amended: when draw_chat has drawn a chat,
\* chat_scroll <= max(0, total_lines - viewport_height).
C4_ScrollAfterRender ==
    Rendered => chat_scroll <= SatSub(total_lines, viewport_height)

\* a frame of a chat with a streamed reply is scrolled to its end
C4_Witness ==
    /\ Rendered
    /\ chat_scroll > 0
    /\ chat_scroll = SatSub(total_lines, viewport_height)
    /\ Len(chats[current_chat + 1].messages) = 2

\* C7: once the producer of a registered stream has dropped its Sender, after
\* the last delta or after an error, the render loop eventually removes the
\* stream from stream_tasks and clears the streaming flag of its chat, so that
\* Enter in Insert mode is not refused for that chat.
C7_CompletionObserved ==
    \A sid \in 1..MaxStreams :
        (sid <= Len(streams) /\ Registered(sid) /\ ~streams[sid].tx_alive)
        ~> (/\ sid <= Len(streams) /\ ~Registered(sid)
            /\ LET ci == FindChat(chats, streams[sid].chat_id)
               IN  ci # 0 => (~chats[ci].streaming /\ ~SubmitRefusedStreaming(chats[ci])))

\* a request failed before its first delta, and its chat is idle again
C7_Witness ==
    \E sid \in 1..Len(streams) :
        LET ci == FindChat(chats, streams[sid].chat_id)
        IN  /\ streams[sid].sent = <<>>
            /\ ~streams[sid].tx_alive /\ ~streams[sid].rx_alive
            /\ ci # 0 /\ ~chats[ci].streaming
            /\ streams[sid].chat_id \notin DOMAIN stream_tasks

SplitWord ==
    [k \in 1..6 |-> "a"] \o <<NL>> \o Fence \o <<NL>> \o Fence \o <<NL>>
    \o [k \in 1..5 |-> "a"]

FoldInputs == {LongWord, SplitWord}

NextFold ==
    \/ Frame
    \/ PollTimeout
    \/ KeyDown \/ KeyUp \/ KeyToggleTruncation
    \/ (chats = <<>> /\ KeyNewChat)
    \/ (streams = <<>> /\ KeyInsert)
    \/ \E msg \in FoldInputs : KeySubmit(msg, TRUE)
    \/ ViewProducer

SpecFold == InitView /\ [][NextFold]_vars

\* the number of lines of the message's cache entry when nothing is cut
WrappedCount(message) == Len(BuildEntry(message, 0, {}, Dims).lines)

\* C14: in a frame drawn by draw_chat, a message with more wrapped lines than
\* the cap whose flag is set in truncated_messages has is_truncated = TRUE
\* and cap lines in its cache entry (the ellipsis line follows them), and one
\* whose flag is not set has is_truncated = FALSE and all its lines; the
\* toggle flips the flag, so two toggles restore the entry.
C14_TruncationToggle ==
    Rendered =>
        LET messages == chats[current_chat + 1].messages
        IN  \A c \in 1..Len(messages) :
              WrappedCount(messages[c]) > MAX_VISIBLE_LINES_PER_MESSAGE =>
                /\ c <= Len(line_cache)
                /\ IF (c - 1) \in truncated_messages
                   THEN /\ line_cache[c].trunc
                        /\ Len(line_cache[c].lines) = MAX_VISIBLE_LINES_PER_MESSAGE
                   ELSE /\ ~line_cache[c].trunc
                        /\ Len(line_cache[c].lines) = WrappedCount(messages[c])

(***************************************************************************)
(* SpecHidden: a streamed reply of more than MAX_VISIBLE_LINES_PER_MESSAGE *)
(* wrapped lines under the truncation toggle.  There is one chat and one   *)
(* submit; the reply is LongWord followed by "a".                          *)
(***************************************************************************)

\* the deltas of the long response
LongReply == <<LongWord, <<"a">>>>

\* a producer streams the next delta of LongReply, or returns
LongProducer ==
    /\ ProducerTurn
    /\ \/ \E sid \in 1..Len(streams) :
            /\ Len(streams[sid].sent) < Len(LongReply)
            /\ ProducerSend(sid, LongReply[Len(streams[sid].sent) + 1])
       \/ \E sid \in 1..Len(streams) : ProducerEnd(sid)

NextHidden ==
    \/ Frame
    \/ PollTimeout
    \/ KeyDown \/ KeyUp \/ KeyToggleTruncation
    \/ (chats = <<>> /\ KeyNewChat)
    \/ (streams = <<>> /\ KeyInsert)
    \/ KeySubmit(<<"a">>, TRUE)
    \/ LongProducer

SpecHidden == InitView /\ [][NextHidden]_vars

\* C15: when draw_chat draws the frame that follows a process_stream call
\* that drained a fragment into an assistant message of the displayed chat,
\* the cache entry of that message has is_truncated = FALSE and holds all
\* the wrapped lines of the message.
C15_InFlightNotHidden ==
    [][ (/\ pc = "draw" /\ pc' = "key"
         /\ mode \in ChatModes /\ HasValidChat)
        => LET chat == chats[current_chat + 1]
           IN  \A k \in 1..Len(ps.processed_chunks) :
                 LET m == ps.processed_chunks[k][1]
                 IN  (/\ m < Len(chat.messages)
                      /\ chat.messages[m + 1].role = "assistant"
                      /\ \E sid \in 1..Len(streams) : <<chat.id, m, sid>> \in appended)
                     => /\ m < Len(line_cache')
                        /\ ~line_cache'[m + 1].trunc
                        /\ Len(line_cache'[m + 1].lines) = WrappedCount(chat.messages[m + 1])
      ]_vars

\* a stream of the displayed chat has delivered fragments, and the
\* process_stream call that is about to return has appended content
DrainAppended ==
    /\ pc = "closed" /\ pc' = "draw"
    /\ mode \in ChatModes /\ HasValidChat
    /\ ps.content_updated
    /\ \E sid \in 1..Len(streams) :
         /\ Registered(sid)
         /\ streams[sid].chat_id = chats[current_chat + 1].id
         /\ streams[sid].drained # <<>>

\* cursor_line after the draw_chat that follows the step
NextCursor ==
    LET chat == chats'[current_chat' + 1]
        built == BuildCache(chat.messages, 1, truncated_messages', Dims)
        doc == Document(chat.messages, chat.streaming, built.cache)
    IN  ClampCursor(cursor_line', doc.total)

\* chat_scroll after the draw_chat that follows the step
NextScroll ==
    LET chat == chats'[current_chat' + 1]
        built == BuildCache(chat.messages, 1, truncated_messages', Dims)
        doc == Document(chat.messages, chat.streaming, built.cache)
    IN  ClampScroll(NextCursor, chat_scroll', doc.total, ViewportHeight)

\* max_chat_scroll after the draw_chat that follows the step
NextMaxScroll ==
    LET chat == chats'[current_chat' + 1]
        built == BuildCache(chat.messages, 1, truncated_messages', Dims)
        doc == Document(chat.messages, chat.streaming, built.cache)
    IN  SatSub(doc.total, ViewportHeight) % U16_MOD

\* C16: when the last frame left the view away from the bottom
\* (chat_scroll < max_chat_scroll, the cursor on a line of the document and
\* inside the viewport) and process_stream appends streamed content to the
\* displayed chat, chat_scroll and cursor_line are after the next draw_chat
\* what they were before the call.
C16_NoForceScroll ==
    [][ (/\ DrainAppended
         /\ chat_scroll < max_chat_scroll
         /\ cursor_line < total_lines
         /\ chat_scroll <= cursor_line /\ cursor_line < chat_scroll + viewport_height)
        => (NextCursor = cursor_line /\ NextScroll = chat_scroll)
      ]_vars

\* C17: when the view is at the bottom (chat_scroll is max_chat_scroll or
\* the follow-bottom value u16::MAX) and process_stream appends streamed
\* content to the displayed chat, chat_scroll is after the next draw_chat the
\* max_chat_scroll of that frame.
C17_FollowsBottom ==
    [][ (/\ DrainAppended
         /\ (chat_scroll = max_chat_scroll \/ chat_scroll = U16_MAX))
        => NextScroll = NextMaxScroll
      ]_vars

(***************************************************************************)
(* SpecBlock: the cache entry draw_chat builds for one assistant message,  *)
(* for every text of at most MaxLines lines taken from BlockLineSet, in a  *)
(* chat pane of width 5.  fx.segs are the segments of the text and         *)
(* fx.entry is the cache entry.                                            *)
(***************************************************************************)

\* the line print(1)
PrintLine == <<"p", "r", "i", "n", "t", "(", "1", ")">>

\* the lines of a text: "a", the empty line, a bare fence, a fence with the
\* tag py, and print(1)
BlockLineSet == {<<"a">>, <<>>, Fence, Fence \o <<"p", "y">>, PrintLine}

BlockTexts == {JoinNL(ls) : ls \in UNION {[1..n -> BlockLineSet] : n \in 0..MaxLines}}

\* "```py\nprint(1)\n```"
PrintBlock == JoinNL(<<Fence \o <<"p", "y">>, PrintLine, Fence>>)

InitBlock ==
    /\ AppInit
    /\ streams = <<>>
    /\ area = [width |-> 5, height |-> 21]
    /\ next_id = 1
    /\ pc = "process"
    /\ ps = PsIdle
    /\ total_lines = 0
    /\ viewport_height = 1
    /\ appended = {}
    /\ fx \in {[text |-> t, built |-> FALSE, segs |-> <<>>,
                entry |-> [lines |-> <<>>, trunc |-> FALSE, blocks |-> <<>>]] :
                 t \in BlockTexts}

\* the body of the rebuild loop of draw_chat for the message
BuildMessage ==
    /\ ~fx.built
    /\ fx' = [fx EXCEPT !.built = TRUE,
                        !.segs = ParseMessageSegments(fx.text),
                        !.entry = BuildEntry(Message("assistant", fx.text), 0, {}, Dims)]
    /\ UNCHANGED <<appVars, envVars, pc, ps, total_lines, viewport_height, appended>>

NextBlock == BuildMessage

SpecBlock == InitBlock /\ [][NextBlock]_vars

RECURSIVE SegLineCount(_, _, _)
\* the number of lines of a cache entry when a Text segment gives its wrapped
\* lines and a Code segment of k lines gives k + around lines
SegLineCount(segs, text_width, around) ==
    IF segs = <<>> THEN 0
    ELSE (IF Head(segs).kind = "Text"
          THEN Len(Wrap(Head(segs).text, Max(text_width, 1)))
          ELSE Len(StrLines(Head(segs).content)) + around)
         + SegLineCount(Tail(segs), text_width, around)

\* the number of lines of the given kind
KindCount(lines, kind) == Len(SelectSeq(lines, LAMBDA l : l.kind = kind))

\* the number of code lines of all Code segments
CodeLineCount(segs) == SegLineCount(SelectSeq(segs, LAMBDA g : g.kind = "Code"), 1, 0)

\* C18 as stated: a Code segment of k lines contributes k + 2 lines to the
\* cache entry of its message, next to the wrapped lines of the Text segments.
C18_BlockOfKPlus2 ==
    fx.built => Len(fx.entry.lines) = SegLineCount(fx.segs, Dims.text_width, 2)

\* C18, amended: a Code segment whose content has k lines contributes k + 4
\* lines to the cache entry of its message: an empty line, the top border,
\* the k code lines, the bottom border and an empty line.
C18_BlockOfKPlus4 ==
    fx.built =>
        LET lines == fx.entry.lines
            n == Len(SelectSeq(fx.segs, LAMBDA g : g.kind = "Code"))
        IN  /\ Len(lines) = SegLineCount(fx.segs, Dims.text_width, 4)
            /\ KindCount(lines, "top") = n
            /\ KindCount(lines, "bottom") = n
            /\ KindCount(lines, "raw") = 2 * n
            /\ KindCount(lines, "code") = CodeLineCount(fx.segs)
            /\ \A i \in 1..Len(lines) :
                 lines[i].kind = "top" =>
                   /\ i > 1 /\ lines[i - 1].kind = "raw"
                   /\ \E j \in (i + 1)..(Len(lines) - 1) :
                        /\ lines[j].kind = "bottom" /\ lines[j + 1].kind = "raw"
                        /\ \A m \in (i + 1)..(j - 1) : lines[m].kind = "code"

\* the entry of the message "```py\nprint(1)\n```": five lines, of which the
\* bordered block is three
C18_Witness ==
    /\ fx.built
    /\ fx.text = PrintBlock
    /\ Len(fx.entry.lines) = 5
    /\ [i \in 1..5 |-> fx.entry.lines[i].kind] = <<"raw", "top", "code", "bottom", "raw">>
    /\ fx.entry.lines[2].text = <<"p", "y">>
    /\ fx.entry.lines[3].text = PrintLine

(***************************************************************************)
(* SpecRestart: the chats over a quit and a restart.  ":q" makes run_app   *)
(* return; main writes app.chats with save_history and the process ends,   *)
(* which ends the producer tasks; the next run of main builds App::new()   *)
(* and replaces its chats by load_history().                               *)
(***************************************************************************)

\* Normal mode, ':'
KeyColon ==
    /\ KeyFrame /\ mode = "Normal"
    /\ mode' = "Command"
    /\ UNCHANGED <<chats, current_chat, sidebar_visible, selected_sidebar_idx,
                   chat_scroll, cursor_line, line_cache, truncated_messages,
                   need_rebuild_cache, line_to_message, focus, stream_tasks,
                   code_blocks, streams, next_id>>

\* #[derive(Serialize)] of Chat, as save_history writes a chat: every field
SaveChat(chat) ==
    [id |-> chat.id, messages |-> chat.messages, streaming |-> chat.streaming]

\* #[derive(Deserialize)] of Chat, as load_history reads a chat: every field
LoadChat(saved) ==
    [id |-> saved.id, messages |-> saved.messages, streaming |-> saved.streaming]

\* save_history(&app.chats); an unwritable file leaves no history
SaveHistory(cs, written) ==
    IF written THEN [i \in 1..Len(cs) |-> SaveChat(cs[i])] ELSE <<>>

\* load_history()
LoadHistory(file) == [i \in 1..Len(file) |-> LoadChat(file[i])]

\* Command mode, Enter with the command q, and the next start of the program
KeyQuit ==
    /\ pc = "key" /\ mode = "Command"
    /\ \E written \in BOOLEAN : chats' = LoadHistory(SaveHistory(chats, written))
    /\ mode' = "Normal"
    /\ current_chat' = 0
    /\ sidebar_visible' = TRUE
    /\ selected_sidebar_idx' = 0
    /\ chat_scroll' = U16_MAX
    /\ max_chat_scroll' = 0
    /\ cursor_line' = 0
    /\ last_width' = 0
    /\ line_cache' = <<>>
    /\ truncated_messages' = {}
    /\ need_rebuild_cache' = TRUE
    /\ line_to_message' = <<>>
    /\ focus' = "Chat"
    /\ stream_tasks' = <<>>
    /\ code_blocks' = <<>>
    /\ display_len' = 0
    /\ streams' = [sid \in 1..Len(streams) |->
                     [streams[sid] EXCEPT !.queue = <<>>, !.tx_alive = FALSE,
                                          !.rx_alive = FALSE]]
    /\ pc' = "process"
    /\ ps' = PsIdle
    /\ total_lines' = 0
    /\ viewport_height' = 1
    /\ UNCHANGED <<area, next_id, appended, fx>>

NextRestart ==
    \/ Frame
    \/ PollTimeout
    \/ KeyInsert \/ KeyNewChat \/ KeyEsc
    \/ \E accepted \in BOOLEAN : KeySubmit(<<"a">>, accepted)
    \/ KeyColon \/ KeyQuit
    \/ Producer

SpecRestart == Init /\ [][NextRestart]_vars

\* C19: in every state a chat with streaming = TRUE has a stream registered
\* in stream_tasks, also in the states that follow a restart from a saved
\* history.
C19_StreamingIsRegistered ==
    \A i \in 1..Len(chats) : chats[i].streaming => chats[i].id \in DOMAIN stream_tasks

(***************************************************************************)
(* SpecResize: frames of a chat pane that loses its width, its height or   *)
(* both, and gets them back.  There is one chat and one submit, LongWord,  *)
(* with a reply of one fragment.  No key is pressed while the pane is      *)
(* degenerate.  When the pane collapses, fx records the chats, the flags   *)
(* and what draw_chat would have left in that frame at the valid size.     *)
(***************************************************************************)

\* the chat pane with text width 2 and viewport height 3
ValidArea == [width |-> 6, height |-> 23]

\* panes with text_width 0, with chunks[0].height - 20 = 0, or both
DegenerateAreas ==
    {[width |-> 0, height |-> 0], [width |-> 0, height |-> 23],
     [width |-> 6, height |-> 0]}

InitResize == InitWith(ValidArea)

\* what draw_chat leaves in line_cache, cursor_line and chat_scroll when it
\* draws the displayed chat in this state
DrawResult ==
    LET chat == chats[current_chat + 1]
        built == BuildCache(chat.messages, 1, truncated_messages, Dims)
        cache == IF Rebuilds THEN RebuiltCache(line_cache, built.cache) ELSE line_cache
        doc == Document(chat.messages, chat.streaming, cache)
        cursor == ClampCursor(cursor_line, doc.total)
    IN  [cache |-> cache, cursor |-> cursor,
         scroll |-> ClampScroll(cursor, chat_scroll, doc.total, ViewportHeight)]

\* the terminal shrinks before the frame is drawn
Collapse ==
    /\ pc = "draw" /\ area = ValidArea
    /\ mode \in ChatModes /\ HasValidChat
    /\ \E a \in DegenerateAreas : area' = a
    /\ fx' = [chats |-> chats, trunc |-> truncated_messages, expect |-> DrawResult]
    /\ UNCHANGED <<appVars, streams, next_id, pc, ps, total_lines, viewport_height,
                   appended>>

\* the terminal gets its size back before the frame is drawn
Restore ==
    /\ pc = "draw" /\ area \in DegenerateAreas
    /\ area' = ValidArea
    /\ UNCHANGED <<appVars, streams, next_id, pc, ps, total_lines, viewport_height,
                   appended, fx>>

NextResize ==
    \/ Frame
    \/ PollTimeout
    \/ (area = ValidArea /\ (KeyDown \/ KeyUp))
    \/ (area = ValidArea /\ chats = <<>> /\ KeyNewChat)
    \/ (area = ValidArea /\ streams = <<>> /\ KeyInsert)
    \/ (area = ValidArea /\ KeySubmit(LongWord, TRUE))
    \/ ViewProducer
    \/ Collapse \/ Restore

SpecResize == InitResize /\ [][NextResize]_vars

\* the frame about to be drawn is the first one at the valid size after a
\* degenerate frame, and the chat is as it was when the pane collapsed
FirstValidFrame ==
    /\ pc = "draw" /\ pc' = "key"
    /\ mode \in ChatModes /\ HasValidChat
    /\ area = ValidArea /\ fx # <<>>
    /\ (last_width # Dims.text_width \/ viewport_height # ViewportHeight)
    /\ chats = fx.chats /\ truncated_messages = fx.trunc

\* C20: a frame drawn by draw_chat, also at wrap width 0 or viewport height
\* 0, leaves cursor_line < total_lines (when there are lines) and
\* chat_scroll <= max(0, total_lines - viewport_height); and the first frame
\* at the valid size after a degenerate frame leaves the line_cache,
\* cursor_line and chat_scroll that the frame would have left had the pane
\* kept its size.
C20_DegenerateFrame ==
    [][ /\ (pc = "draw" /\ pc' = "key" /\ mode \in ChatModes /\ HasValidChat)
           => /\ total_lines' > 0 => cursor_line' < total_lines'
              /\ chat_scroll' <= SatSub(total_lines', viewport_height')
        /\ FirstValidFrame
           => /\ line_cache' = fx.expect.cache
              /\ cursor_line' = fx.expect.cursor
              /\ chat_scroll' = fx.expect.scroll
      ]_vars

(***************************************************************************)
(* SpecCache: the operations that change what the line cache is built     *)
(* from: fragments, submits, the truncation toggle, new chats, deletions, *)
(* switches in the sidebar and resizes of the chat pane.  The user submits *)
(* LongWord or FiveBlocks; the pane is 2, 3 or 5 columns wide.            *)
(***************************************************************************)

\* five empty code blocks without a language tag, one fence per line: the
\* fifth block has no copy shortcut, so its bottom border holds no hint
FiveBlocks == JoinNL([k \in 1..10 |-> Fence])

CacheInputs == {LongWord, FiveBlocks}

\* chat panes with text widths 0, 0 and 1 and viewport height 1
CacheAreas ==
    {[width |-> 2, height |-> 21], [width |-> 3, height |-> 21],
     [width |-> 5, height |-> 21]}

InitCache == InitWith([width |-> 3, height |-> 21])

\* the terminal is resized before the frame is drawn
ResizePane ==
    /\ pc = "draw"
    /\ \E a \in CacheAreas : a # area /\ area' = a
    /\ UNCHANGED <<appVars, streams, next_id, pc, ps, total_lines, viewport_height,
                   appended, fx>>

NextCache ==
    \/ Frame
    \/ PollTimeout
    \/ (focus = "Sidebar" /\ (KeyDown \/ KeyUp))
    \/ KeyTab
    \/ KeyNewChat \/ KeyDeleteChat
    \/ (KeyEnterSidebar /\ mode' = "Normal")
    \/ KeyToggleTruncation
    \/ (streams = <<>> /\ KeyInsert)
    \/ \E msg \in CacheInputs : (streams = <<>> /\ KeySubmit(msg, TRUE))
    \/ ViewProducer
    \/ ResizePane

SpecCache == InitCache /\ [][NextCache]_vars

\* the cache draw_chat would build now for the displayed chat
FreshCache ==
    BuildCache(chats[current_chat + 1].messages, 1, truncated_messages, Dims).cache

\* C21: after every frame that draws a valid chat, need_rebuild_cache is
\* false, last_width is the text width of the pane, and line_cache is the
\* cache a fresh build gives from the chat's messages, the pane's width and
\* truncated_messages.
C21_CacheCoherent ==
    Rendered =>
        /\ ~need_rebuild_cache
        /\ last_width = Dims.text_width
        /\ line_cache = FreshCache

(***************************************************************************)
(* The flattened document and line_to_message, in SpecFold                 *)
(***************************************************************************)

\* the 1-based positions of line_to_message that belong to the message with
\* the 0-based index m
RunOf(m) == {p \in 1..Len(line_to_message) : line_to_message[p][1] = m}

\* line_to_message follows line_cache: for the k-th message that is not a
\* system message, with cache entry e, the map holds Len(e.lines) entries,
\* then one entry flagged as ellipsis iff e.trunc, then one entry for the
\* separator; drop_last says that the separator of the last message is absent
MapFollowsCache(drop_last) ==
    LET messages == chats[current_chat + 1].messages
        vis == {i \in 1..Len(messages) : messages[i].role # "system"}
        Rank(i) == Cardinality({j \in vis : j <= i})
        Size(i) == LET e == line_cache[Rank(i)]
                   IN  Len(e.lines) + (IF e.trunc THEN 1 ELSE 0)
                       + (IF drop_last /\ \A j \in vis : j <= i THEN 0 ELSE 1)
    IN  /\ Len(line_cache) = Cardinality(vis)
        /\ Len(line_to_message) = display_len
        /\ \A p, q \in 1..Len(line_to_message) :
               p < q => line_to_message[p][1] <= line_to_message[q][1]
        /\ \A p \in 1..Len(line_to_message) : line_to_message[p][1] + 1 \in vis
        /\ \A i \in vis :
               LET e == line_cache[Rank(i)]
                   run == RunOf(i - 1)
               IN  /\ Cardinality(run) = Size(i)
                   /\ \A p \in run :
                          line_to_message[p][2]
                              <=> (e.trunc /\ Cardinality({q \in run : q < p}) = Len(e.lines))

\* C22 as stated: after every frame, every message's lines are followed by
\* one ellipsis line iff its entry is truncated and by one separator line, and
\* line_to_message has one entry per line, non-decreasing message indices and
\* the ellipsis flag on the ellipsis lines only.
C22_EveryMessageSeparated == Rendered => MapFollowsCache(FALSE)

\* C22, amended: the same, except that the separator after the last message
\* is absent when the displayed chat is not streaming.
C22_FlattenedMap ==
    Rendered => MapFollowsCache(~chats[current_chat + 1].streaming)

\* a frame has drawn a chat that is not streaming, with two messages and a
\* truncated entry
C22_Witness ==
    /\ Rendered
    /\ ~chats[current_chat + 1].streaming
    /\ Len(line_cache) = 2
    /\ line_cache[1].trunc
    /\ \E p \in 1..Len(line_to_message) : line_to_message[p][2]

(***************************************************************************)
(* SpecJump: SpecFresh with the keys g and G of the chat pane.             *)
(***************************************************************************)
NextJump == NextFresh \/ KeyTop \/ KeyBottom

SpecJump == InitFresh /\ [][NextJump]_vars

\* total_lines of the draw_chat that follows the step
NextTotal ==
    LET chat == chats'[current_chat' + 1]
        built == BuildCache(chat.messages, 1, truncated_messages', Dims)
    IN  Document(chat.messages, chat.streaming, built.cache).total

\* the step of 'G' with the focus on the chat pane
JumpStep ==
    /\ pc = "key" /\ pc' = "process"
    /\ mode = "Normal" /\ focus = "Chat" /\ HasValidChat
    /\ cursor_line' = JumpCursor(line_cache) /\ chat_scroll' = U16_MAX
    /\ UNCHANGED <<mode, chats, current_chat, truncated_messages, need_rebuild_cache,
                   line_cache, streams, stream_tasks>>

\* C23: after G in the chat pane and the frame that follows it (no fragment
\* arriving in between), cursor_line is total_lines - 1 and chat_scroll is
\* max_chat_scroll, for a chat with lines.
C23_JumpToEnd ==
    [][ (JumpStep /\ NextTotal > 0)
        => (NextCursor = NextTotal - 1 /\ NextScroll = NextMaxScroll)
      ]_vars

\* the number of lines the plain text of a message wraps to: the wrapped
\* lines of all its Text segments
PlainWrapped(message) ==
    SegLineCount(SelectSeq(ParseMessageSegments(message.content),
                           LAMBDA g : g.kind = "Text"),
                 Dims.text_width, 0)

\* C24: after a frame, the entry of a flagged message whose plain text wraps to
\* more than MAX_VISIBLE_LINES_PER_MESSAGE lines in total is marked truncated
\* and holds MAX_VISIBLE_LINES_PER_MESSAGE lines of plain text, into whatever
\* segments code fences split the text; the entry of a message whose plain
\* text wraps to MAX_VISIBLE_LINES_PER_MESSAGE lines or fewer is not marked
\* truncated.
C24_CapOnWholeMessage ==
    Rendered =>
        LET messages == chats[current_chat + 1].messages
        IN  \A c \in 1..Len(messages) :
              /\ c <= Len(line_cache)
              /\ ((c - 1) \in truncated_messages
                    /\ PlainWrapped(messages[c]) > MAX_VISIBLE_LINES_PER_MESSAGE)
                 => /\ line_cache[c].trunc
                    /\ KindCount(line_cache[c].lines, "text") = MAX_VISIBLE_LINES_PER_MESSAGE
              /\ PlainWrapped(messages[c]) <= MAX_VISIBLE_LINES_PER_MESSAGE
                 => ~line_cache[c].trunc

(***************************************************************************)
(* Two chats, in SpecView and Spec                                         *)
(***************************************************************************)

\* no stream was ever started for the displayed chat: what process_stream
\* drains belongs to other chats
OtherChatsOnly ==
    /\ mode \in ChatModes /\ HasValidChat
    /\ \A sid \in 1..Len(streams) : streams[sid].chat_id # chats[current_chat + 1].id

\* C25: a process_stream call that drains fragments of chats other than the
\* displayed one leaves truncated_messages, cursor_line and chat_scroll as
\* they were.
C25_OtherChatStreams ==
    [][ /\ (OtherChatsOnly /\ pc = "process" /\ pc' = "closed")
           => truncated_messages' = truncated_messages
        /\ (OtherChatsOnly /\ pc = "closed" /\ pc' = "draw" /\ ps.content_updated)
           => (cursor_line' = cursor_line /\ chat_scroll' = chat_scroll)
      ]_vars

\* the step of Enter on a sidebar entry of a chat other than the displayed one
SwitchStep ==
    /\ pc = "key" /\ pc' = "process"
    /\ mode = "Normal" /\ focus = "Sidebar"
    /\ selected_sidebar_idx < Len(chats)
    /\ current_chat # selected_sidebar_idx
    /\ current_chat' = selected_sidebar_idx
    /\ chats' = chats

\* C26: after Enter on a sidebar entry and the frame that follows it (no
\* fragment arriving in between), cursor_line is on the last line of the
\* newly displayed chat and chat_scroll is its max_chat_scroll, whatever chat
\* was displayed before.
C26_ViewportResetOnSwitch ==
    [][ (SwitchStep /\ NextTotal > 0)
        => (NextCursor = NextTotal - 1 /\ NextScroll = NextMaxScroll)
      ]_vars

\* the step changes whether the message index m is in truncated_messages
FlagChanged(m) == (m \in truncated_messages') # (m \in truncated_messages)

\* the step creates the message with index m of the chat with id c, streams
\* into it, or toggles it
Touched(c, m) ==
    LET i == FindChat(chats, c)
        j == FindChat(chats', c)
    IN  \/ Len(chats[i].messages) <= m
        \/ chats'[j].messages[m + 1] # chats[i].messages[m + 1]
        \/ /\ pc = "key" /\ mode = "Normal" /\ current_chat + 1 = i
           /\ chats' = chats
           /\ cursor_line < Len(line_to_message)
           /\ line_to_message[cursor_line + 1][1] = m

\* C27: a step changes whether message m of a chat is collapsed (m is in
\* truncated_messages, the set draw_chat consults for whichever chat it
\* draws) only if it creates, toggles or streams into that message: for
\* every chat that has a message m before and after the step, a change of
\* the flag of m comes with one of the three.
C27_FlagsPerMessage ==
    [][ \A m \in 0..(MaxMsgs - 1) :
          FlagChanged(m) =>
            \A c \in 1..MaxIds :
              (/\ FindChat(chats, c) # 0 /\ FindChat(chats', c) # 0
               /\ m < Len(chats'[FindChat(chats', c)].messages))
              => Touched(c, m)
      ]_vars

(***************************************************************************)
(* SpecRegister: a chat with a registered stream, as in SpecFresh, and     *)
(* further calls of start_stream for it; every producer sends one fragment *)
(***************************************************************************)

\* App::start_stream(chat_id), called between two frames
StartStream(chat_id) ==
    /\ KeyFrame
    /\ Len(streams) < MaxStreams
    /\ stream_tasks' = InsertTask(stream_tasks, chat_id, Len(streams) + 1)
    /\ streams' = StartStreamChannels(streams, stream_tasks, chat_id, 0)
    /\ UNCHANGED <<mode, chats, current_chat, sidebar_visible, selected_sidebar_idx,
                   chat_scroll, cursor_line, line_cache, truncated_messages,
                   need_rebuild_cache, line_to_message, focus, code_blocks, next_id>>

NextRegister == Frame \/ PollTimeout \/ ViewProducer \/ StartStream(1)

SpecRegister == InitFresh /\ [][NextRegister]_vars

\* C28: start_stream for a chat id that has a registered stream leaves the
\* registry entry of that id and the Receiver of its channel as they are, so
\* that the first producer's fragments are still delivered.
C28_SecondStartIgnored ==
    [][ \A id \in DOMAIN stream_tasks :
          StartStream(id) =>
            /\ stream_tasks'[id] = stream_tasks[id]
            /\ streams'[stream_tasks[id]].rx_alive = streams[stream_tasks[id]].rx_alive
      ]_vars

(***************************************************************************)
(* SpecDrain: the while let Ok(chunk) = task.rx.try_recv() loop of         *)
(* process_stream one receive at a time, for the chat of SpecFresh with    *)
(* its one registered stream.  The producer runs on another thread of the  *)
(* runtime and may send or return between any two receives.  The render    *)
(* loop is weakly fair: it takes its next step whenever it has one.        *)
(***************************************************************************)

\* the mutant of TryRecvIsErr that waits like rx.recv(): it returns without a
\* chunk only when the channel is empty and closed
RecvIsNone(stream) == stream.queue = <<>> /\ ~stream.tx_alive

\* task.rx.try_recv() returns Err: the channel buffers nothing (Empty or
\* Disconnected), whatever the producer is doing
TryRecvIsErr(stream) == stream.queue = <<>>

\* one pass of the body of the while let loop: try_recv returns Ok(chunk)
TryRecvOk ==
    /\ pc = "process"
    /\ \E id \in DOMAIN stream_tasks :
         LET sid == stream_tasks[id]
             chunk == Head(streams[sid].queue)
             st0 == [chats |-> chats, processed_chunks |-> ps.processed_chunks,
                     need_rebuild_cache |-> need_rebuild_cache,
                     content_updated |-> ps.content_updated,
                     truncated_messages |-> truncated_messages,
                     appended |-> appended]
             st == ApplyChunk(st0, id, sid, chunk)
         IN  /\ streams[sid].queue # <<>>
             /\ chats' = st.chats
             /\ need_rebuild_cache' = st.need_rebuild_cache
             /\ truncated_messages' = st.truncated_messages
             /\ appended' = st.appended
             /\ ps' = [processed_chunks |-> st.processed_chunks,
                       content_updated |-> st.content_updated]
             /\ streams' = [streams EXCEPT ![sid].queue = Tail(@),
                                           ![sid].drained = Append(@, chunk)]
    /\ UNCHANGED <<mode, current_chat, sidebar_visible, selected_sidebar_idx,
                   chat_scroll, max_chat_scroll, cursor_line, last_width, line_cache,
                   line_to_message, focus, stream_tasks, code_blocks, display_len,
                   area, next_id, pc, total_lines, viewport_height, fx>>

\* try_recv returns Err for the task: the while let loop ends
TryRecvErr ==
    /\ pc = "process"
    /\ \A id \in DOMAIN stream_tasks : TryRecvIsErr(streams[stream_tasks[id]])
    /\ pc' = "closed"
    /\ UNCHANGED <<appVars, streams, area, next_id, ps, total_lines, viewport_height,
                   appended, fx>>

\* the receives of process_stream, and the rest of an iteration of run_app
Receive == TryRecvOk \/ TryRecvErr
RestOfLoop == ProcessFinish \/ Draw \/ PollTimeout

NextDrain == Receive \/ RestOfLoop \/ FreeProducer

\* Weak fairness of the render loop.  RestOfLoop has a step exactly when pc
\* is not "process", so its weak fairness is written with that condition in
\* the place of ENABLED.
LoopFair ==
    /\ WF_vars(Receive)
    /\ ([]<>(pc = "process") \/ []<><<RestOfLoop>>_vars)

SpecDrain == InitFresh /\ [][NextDrain]_vars /\ LoopFair

\* C29: every call of process_stream returns and the iteration goes on to the
\* draw and to the poll, with the producer sending between the receives.
C29_DrainReturns ==
    /\ (pc = "process") ~> (pc = "draw")
    /\ (pc = "draw") ~> (pc = "key")

\* a call of process_stream has received a fragment that the producer sent
\* after the call had begun, and the producer is still running
C29_Witness ==
    /\ pc = "process"
    /\ Len(ps.processed_chunks) = 2
    /\ streams[1].queue # <<>>
    /\ streams[1].tx_alive

(***************************************************************************)
(* SpecCopy: the copy shortcuts c, C, x and X.  The user submits TwoBlocks *)
(* in one chat, the reply is Reply (an open code block), the cursor        *)
(* moves by lines, and a second chat is created and deleted again.  fx     *)
(* holds what the last shortcut did: the key, the text given to the        *)
(* clipboard and the message it reported.                                  *)
(***************************************************************************)

\* a message of two code blocks: ```, a, ```, ```py, b, ```
TwoBlocks ==
    JoinNL(<<Fence, <<"a">>, Fence, Fence \o <<"p", "y">>, <<"b">>, Fence>>)

\* the text the clipboard holds
Clipboard == IF fx = <<>> THEN None ELSE fx.clipboard

\* the mutant of CopySelect that does not filter by the message index
CopySelectAny(blocks, msg_idx, k) ==
    IF Len(blocks) >= k THEN Some(blocks[k][2].content) ELSE None

\* app.code_blocks.iter().filter(|(m_idx, _)| m_idx == msg_idx).nth(k - 1),
\* and find for k = 1: the content of the block, as an Option
CopySelect(blocks, msg_idx, k) ==
    LET own == SelectSeq(blocks, LAMBDA b : b[1] = msg_idx)
    IN  IF Len(own) >= k THEN Some(own[k][2].content) ELSE None

\* Normal mode, COPY_CODE_BLOCKS[k]: 'c', 'C', 'x' or 'X'
KeyCopyCodeBlock(k) ==
    /\ pc = "key" /\ pc' = "process" /\ mode = "Normal"
    /\ fx' = IF cursor_line < Len(line_to_message)
             THEN LET cb == CopySelect(code_blocks, line_to_message[cursor_line + 1][1], k)
                  IN  IF cb # None
                      THEN [key |-> k, clipboard |-> cb, info |-> "copied"]
                      ELSE [key |-> k, clipboard |-> Clipboard, info |-> "none"]
             ELSE [key |-> k, clipboard |-> Clipboard, info |-> "unset"]
    /\ UNCHANGED <<appVars, streams, area, next_id, ps, total_lines, viewport_height,
                   appended>>

NextCopy ==
    \/ Frame
    \/ PollTimeout
    \/ KeyDown \/ KeyUp \/ KeyNewChat
    \/ (Len(chats) = MaxChats /\ KeyDeleteChat)
    \/ (streams = <<>> /\ KeyInsert)
    \/ (streams = <<>> /\ KeySubmit(TwoBlocks, TRUE))
    \/ Producer
    \/ \E k \in 1..Len(COPY_CODE_BLOCKS) : KeyCopyCodeBlock(k)

SpecCopy == Init /\ [][NextCopy]_vars

\* the contents of the fenced blocks of message msg_idx of the displayed
\* chat, in source order, as parse_message_segments splits them for display
DisplayedBlocks(msg_idx) ==
    LET segs == ParseMessageSegments(chats[current_chat + 1].messages[msg_idx + 1].content)
        code == SelectSeq(segs, LAMBDA g : g.kind = "Code")
    IN  [j \in 1..Len(code) |-> code[j].content]

\* C30: with the cursor on a line of message m of the displayed chat, the
\* k-th copy shortcut gives the clipboard the k-th fenced block of m, in
\* source order as displayed, and reports that there is no block, leaving
\* the clipboard alone, when m has fewer than k blocks.
C30_CopySelectsOwnBlock ==
    [][ \A k \in 1..Len(COPY_CODE_BLOCKS) :
          (KeyCopyCodeBlock(k) /\ HasValidChat /\ cursor_line < Len(line_to_message))
          => LET m == line_to_message[cursor_line + 1][1]
                 shown == DisplayedBlocks(m)
             IN  IF Len(shown) >= k
                 THEN fx'.clipboard = Some(shown[k]) /\ fx'.info = "copied"
                 ELSE fx'.clipboard = Clipboard /\ fx'.info = "none"
      ]_vars

\* the second shortcut has copied the second block of a message while the
\* chat holds a streamed reply with a block of its own
C30_Witness ==
    /\ fx # <<>> /\ fx.key = 2 /\ fx.info = "copied"
    /\ fx.clipboard = Some(<<"b">>)
    /\ HasValidChat
    /\ Len(chats[current_chat + 1].messages) = 2
    /\ Len(code_blocks) = 3

(***************************************************************************)
(* SpecScroll: the scroll clamping of draw_chat as a function of the       *)
(* document length, for short documents and for documents around 2^16      *)
(* lines.  fx holds total_lines, the viewport height, cursor_line and      *)
(* chat_scroll before the frame, and in out the chat_scroll it leaves.     *)
(***************************************************************************)

\* document lengths
ScrollTotals == {1, 4, U16_MAX, U16_MOD, U16_MOD + 1, U16_MOD + 3}

\* viewport heights
ScrollHeights == {1, 3}

\* chat_scroll before the frame: offsets and the follow-bottom value
ScrollBefore == {0, 2, U16_MAX}

InitScroll ==
    /\ AppInit
    /\ streams = <<>>
    /\ area = ViewArea
    /\ next_id = 1
    /\ pc = "draw"
    /\ ps = PsIdle
    /\ total_lines = 0
    /\ viewport_height = 1
    /\ appended = {}
    /\ \E total \in ScrollTotals, vh \in ScrollHeights, scroll \in ScrollBefore :
       \E cursor \in {0, total \div 2, total - 1, total + 1} :
         fx = [total |-> total, vh |-> vh, cursor |-> cursor, scroll |-> scroll,
               done |-> FALSE, out |-> 0]

\* the lines of draw_chat from total_lines to the last write of chat_scroll
ClampFrame ==
    /\ ~fx.done
    /\ fx' = [fx EXCEPT !.done = TRUE,
                        !.out = ClampScroll(ClampCursor(fx.cursor, fx.total),
                                            fx.scroll, fx.total, fx.vh)]
    /\ UNCHANGED <<appVars, streams, area, next_id, pc, ps, total_lines,
                   viewport_height, appended>>

NextScrollFrame == ClampFrame

SpecScroll == InitScroll /\ [][NextScrollFrame]_vars

\* the offset the frame is meant to leave, computed without the 16-bit casts:
\* the maximum when following the bottom or past it, moved so that the cursor
\* is in view, and never more than the maximum
IntendedScroll(cursor, scroll, total, vh) ==
    LET max_scroll == SatSub(total, vh)
        s1 == IF scroll = U16_MAX \/ scroll > max_scroll THEN max_scroll ELSE scroll
        s2 == IF cursor < s1 THEN cursor
              ELSE IF cursor >= s1 + vh THEN SatSub(cursor + 1, vh)
              ELSE s1
    IN  Min(s2, max_scroll)

\* C31: for every document length, the chat_scroll a frame stores is the
\* intended offset, a value of 0..(total_lines - viewport_height) that is not
\* changed by the 16-bit width of the field.
C31_ScrollNeverWraps ==
    fx.done =>
        fx.out = IntendedScroll(ClampCursor(fx.cursor, fx.total), fx.scroll,
                                fx.total, fx.vh)

(***************************************************************************)
(* C32: routing of the fragments by conversation id.                       *)
(***************************************************************************)

RECURSIVE AssistantText(_)
\* the text of the assistant messages of a conversation, in order
AssistantText(messages) ==
    IF messages = <<>> THEN <<>>
    ELSE (IF Head(messages).role = "assistant" THEN Head(messages).content ELSE <<>>)
         \o AssistantText(Tail(messages))

\* what the channels registered for the conversation id hold
Buffered(id) ==
    IF id \in DOMAIN stream_tasks THEN Concat(streams[stream_tasks[id]].queue)
    ELSE <<>>

C33_CursorVisible ==
    (fx.done /\ fx.total > 0) =>
        LET cursor == ClampCursor(fx.cursor, fx.total)
        IN  fx.out <= cursor /\ cursor < fx.out + fx.vh

\* C35: whatever keys create, delete and switch conversations and move the
\* sidebar selection, current_chat is an index of chats whenever chats is not
\* empty, and selected_sidebar_idx is an index of chats or chats.len(), the
\* Settings entry.
C35_IndicesValid ==
    /\ chats # <<>> => current_chat < Len(chats)
    /\ selected_sidebar_idx <= Len(chats)

\* two conversations were created and one of them deleted; the selection is
\* on the Settings entry below the remaining conversation
C35_Witness ==
    /\ next_id = 3
    /\ Len(chats) = 1
    /\ current_chat = 0
    /\ selected_sidebar_idx = Len(chats)

(***************************************************************************)
(* SpecModel: the model of a conversation and the model shown in the chat  *)
(* title.  fx holds the fields of App and of the configuration that the    *)
(* variables above leave out: current_model, chat.model of every chat (by  *)
(* chat id), enabled_models_flat(), selected_model_idx, the providers for  *)
(* which the settings hold a key (cfg_keys) or the environment does        *)
(* (env_keys), and the names of the Standalone custom models (customs);    *)
(* last_enter records what the last Enter of Insert mode did.              *)
(* A model string is a sequence of tokens, one of them the colon.          *)
(***************************************************************************)

COLON == ":"

\* format!("{}:{}", provider, model)
FormatModel(provider, model) == <<provider, COLON>> \o model

RECURSIVE SplitColon(_)
\* chat.model.split(':').collect()
SplitColon(str) ==
    IF \A i \in 1..Len(str) : str[i] # COLON THEN <<str>>
    ELSE LET i == CHOOSE k \in 1..Len(str) :
                      str[k] = COLON /\ \A j \in 1..(k - 1) : str[j] # COLON
         IN  <<SubSeq(str, 1, i - 1)>> \o SplitColon(SubSeq(str, i + 1, Len(str)))

\* app.current_model = "No model selected".to_string()
NoModelSelected == <<"No model selected">>

\* the values of enabled_models_flat(): none, or two provider models and two
\* Standalone custom models, one of them with a colon in its name
EnabledLists ==
    { <<>>,
      << <<"OpenAI", <<"gpt-4o">>>>, <<"Grok", <<"grok-3">>>>,
         <<"Custom", <<"x">>>>, <<"Custom", <<"x", COLON, "y">>>> >> }

\* what load_history returns: nothing, or one conversation whose model is a
\* custom model that the settings no longer hold
Histories == { <<>>, <<FormatModel("Custom", <<"z">>)>> }

\* the providers with a key in the settings, and with a key in the environment
CfgKeySets == { {}, {"OpenAI"} }
EnvKeySets == { {"Grok"} }

\* main up to run_app: App::new, load_history, the configuration, current_model
InitModel ==
    /\ \E hist \in Histories, enabled \in EnabledLists,
          cfg \in CfgKeySets, env \in EnvKeySets :
         /\ chats = [i \in 1..Len(hist) |-> NewChat(i)]
         /\ next_id = Len(hist) + 1
         /\ fx = [current_model |->
                      IF hist # <<>> THEN hist[1]
                      ELSE IF enabled # <<>>
                           THEN FormatModel(enabled[1][1], enabled[1][2])
                           ELSE NoModelSelected,
                  model |-> [i \in 1..Len(hist) |-> hist[i]],
                  enabled |-> enabled,
                  selected_model_idx |-> 0,
                  last_enter |-> "none",
                  cfg_keys |-> cfg,
                  env_keys |-> env,
                  customs |-> {enabled[i][2] : i \in {k \in 1..Len(enabled) :
                                                        enabled[k][1] = "Custom"}}]
    /\ mode = "Normal"
    /\ current_chat = 0
    /\ sidebar_visible = TRUE
    /\ selected_sidebar_idx = 0
    /\ chat_scroll = U16_MAX
    /\ max_chat_scroll = 0
    /\ cursor_line = 0
    /\ last_width = 0
    /\ line_cache = <<>>
    /\ truncated_messages = {}
    /\ need_rebuild_cache = TRUE
    /\ line_to_message = <<>>
    /\ focus = "Chat"
    /\ stream_tasks = <<>>
    /\ code_blocks = <<>>
    /\ display_len = 0
    /\ streams = <<>>
    /\ area = ViewArea
    /\ pc = "process"
    /\ ps = PsIdle
    /\ total_lines = 0
    /\ viewport_height = 1
    /\ appended = {}

\* chat.model of the chat at the 0-based index i
ChatModel(i) == fx.model[chats[i + 1].id]

\* Normal mode, 'n': create_new_chat with model: self.current_model.clone()
ModelNewChat ==
    /\ KeyStep /\ CreateNewChat
    /\ fx' = [fx EXCEPT !.model = (next_id :> fx.current_model) @@ @]

\* Normal mode, Enter: a switch to the selected chat takes its model
ModelEnterSidebar ==
    /\ KeyStep /\ EnterSidebar
    /\ fx' = IF focus = "Sidebar" /\ selected_sidebar_idx < Len(chats)
             THEN [fx EXCEPT !.current_model = ChatModel(selected_sidebar_idx)]
             ELSE fx

\* what the handlers of ModelSelect mode leave alone
ModelSelectFrame ==
    /\ KeyStep
    /\ UNCHANGED <<chats, current_chat, sidebar_visible, selected_sidebar_idx,
                   chat_scroll, cursor_line, line_cache, truncated_messages,
                   need_rebuild_cache, line_to_message, focus, stream_tasks,
                   code_blocks, streams, next_id>>

\* Normal mode, 'm'
KeyModelSelect ==
    /\ ModelSelectFrame /\ mode = "Normal"
    /\ mode' = "ModelSelect"
    /\ fx' = [fx EXCEPT !.selected_model_idx = 0]

\* ModelSelect mode, 'j' / Down
ModelSelectDown ==
    /\ ModelSelectFrame /\ mode = "ModelSelect"
    /\ fx' = [fx EXCEPT !.selected_model_idx =
                 IF @ + 1 < Len(fx.enabled) THEN @ + 1 ELSE @]
    /\ UNCHANGED mode

\* ModelSelect mode, 'k' / Up
ModelSelectUp ==
    /\ ModelSelectFrame /\ mode = "ModelSelect"
    /\ fx' = [fx EXCEPT !.selected_model_idx = IF @ > 0 THEN @ - 1 ELSE @]
    /\ UNCHANGED mode

\* app.current_model = new_model_str.clone();
\* if let Some(chat) = app.chats.get_mut(app.current_chat) { chat.model = new_model_str; }
SelectedModel(settings, new_model_str, valid, chat_id) ==
    [settings EXCEPT !.current_model = new_model_str,
                     !.model = IF valid THEN [@ EXCEPT ![chat_id] = new_model_str]
                               ELSE @]

\* ModelSelect mode, Enter
ModelSelectEnter ==
    /\ ModelSelectFrame /\ mode = "ModelSelect"
    /\ mode' = "Normal"
    /\ fx' = IF fx.selected_model_idx < Len(fx.enabled)
             THEN LET sel == fx.enabled[fx.selected_model_idx + 1]
                      valid == current_chat < Len(chats)
                  IN  SelectedModel(fx, FormatModel(sel[1], sel[2]), valid,
                                    IF valid THEN chats[current_chat + 1].id ELSE 0)
             ELSE fx

\* ModelSelect mode, Esc
ModelSelectEsc ==
    /\ ModelSelectFrame /\ mode = "ModelSelect"
    /\ mode' = "Normal"
    /\ UNCHANGED fx

\* the providers whose key the Enter handler of Insert mode reads from the
\* environment
EnvProviders == {"OpenAI", "Grok", "Anthropic"}

\* the mutant of SubmitAccepted that accepts every model string
SubmitAcceptedAny(model, customs, cfg_keys, env_keys) == TRUE

\* the checks of the Enter handler of Insert mode between chat.streaming and
\* add_user_message: the model string has two parts; a Custom model is one of
\* the Standalone custom models; another provider has a key in the settings or
\* is one of the three whose environment variable is set
SubmitAccepted(model, customs, cfg_keys, env_keys) ==
    LET model_parts == SplitColon(model)
    IN  /\ Len(model_parts) = 2
        /\ IF model_parts[1] = <<"Custom">>
           THEN model_parts[2] \in customs
           ELSE \E p \in cfg_keys \cup (EnvProviders \cap env_keys) :
                    model_parts[1] = <<p>>

\* the streams a run registers at most
MaxModelStreams == 1

\* the checks on the model of the displayed conversation
ModelAccepts ==
    /\ HasValidChat
    /\ SubmitAccepted(ChatModel(current_chat), fx.customs, fx.cfg_keys, fx.env_keys)

\* Insert mode, Enter
ModelSubmit(msg) ==
    /\ KeyStep
    /\ Submit(msg, ModelAccepts)
    /\ fx' = [fx EXCEPT !.last_enter =
                 IF ModelAccepts /\ ~chats[current_chat + 1].streaming
                 THEN "accepted" ELSE "refused"]

NextModel ==
    \/ Frame
    \/ PollTimeout
    \/ (focus = "Sidebar" /\ (KeyDown \/ KeyUp))
    \/ KeyTab
    \/ KeyDeleteChat
    \/ KeyInsert
    \/ KeyEsc
    \/ ModelNewChat
    \/ ModelEnterSidebar
    \/ KeyModelSelect
    \/ ModelSelectDown
    \/ ModelSelectUp
    \/ ModelSelectEnter
    \/ ModelSelectEsc
    \/ /\ IF ModelAccepts /\ ~chats[current_chat + 1].streaming
          THEN Len(streams) < MaxModelStreams
          ELSE TRUE
       /\ ModelSubmit(<<"a">>)

SpecModel == InitModel /\ [][NextModel]_vars

\* the cases in which the claim says Enter is refused
SubmitRefused ==
    \/ ~HasValidChat
    \/ chats[current_chat + 1].streaming
    \/ LET model_parts == SplitColon(ChatModel(current_chat))
       IN  \/ Len(model_parts) # 2
           \/ /\ model_parts[1] # <<"Custom">>
              /\ \A p \in fx.cfg_keys \cup (EnvProviders \cap fx.env_keys) :
                     model_parts[1] # <<p>>
           \/ /\ model_parts[1] = <<"Custom">>
              /\ model_parts[2] \notin fx.customs

\* C34: Enter in Insert mode that is refused (no valid conversation, the
\* conversation is streaming, the model string has not two parts, no key for
\* the provider, unknown custom model) changes no conversation and no entry of
\* the stream registry, and leaves the mode Normal.
C34_RefusedSubmitNoOp ==
    [][(ModelSubmit(<<"a">>) /\ SubmitRefused) =>
           /\ chats' = chats
           /\ stream_tasks' = stream_tasks
           /\ streams' = streams
           /\ mode' = "Normal"]_vars

\* Enter has just been refused for a conversation that is not streaming and
\* whose model the handler does not accept, while another conversation streams
C34_Witness ==
    /\ pc = "process" /\ mode = "Normal"
    /\ fx.last_enter = "refused"
    /\ HasValidChat
    /\ ~chats[current_chat + 1].streaming
    /\ SubmitRefused
    /\ \E i \in 1..Len(chats) : chats[i].streaming

\* C36: after every key, when a conversation is displayed, current_model, the
\* model in the title of the chat pane, is the model of that conversation,
\* which the next submit uses.
C36_DisplayedModelIsUsed ==
    (pc = "process" /\ HasValidChat) => fx.current_model = ChatModel(current_chat)

(***************************************************************************)
(* SpecSave: one call of save_history, step by step, with the two files it *)
(* touches.  A file is None when it does not exist and Some(content)       *)
(* otherwise; a content is a sequence of tokens.  fx holds history         *)
(* (history.json), tmp (history.json.tmp), buf (what the BufWriter holds), *)
(* rest (what serde_json has still to write), prev and new (the content    *)
(* before the call and the serialization of the chats), at (where the call *)
(* is) and failed (to_writer_pretty returned an error).                    *)
(***************************************************************************)

\* the capacity of the BufWriter, in tokens
BufCapacity == 2

\* serde_json::to_writer_pretty of the chats: the whole output
Serialize(cs) == <<"[">> \o SaveHistory(cs, TRUE) \o <<"]">>

\* the chats given to save_history
SaveInputs == {<<>>, <<NewChat(1)>>, <<NewChat(1), NewChat(2)>>}

\* history.json before the call
SavePrevious == {None, Some(Serialize(<<>>)), Some(Serialize(<<NewChat(2)>>))}

InitSave ==
    /\ AppInit
    /\ streams = <<>>
    /\ area = ViewArea
    /\ next_id = 1
    /\ pc = "key"
    /\ ps = PsIdle
    /\ total_lines = 0
    /\ viewport_height = 1
    /\ appended = {}
    /\ \E cs \in SaveInputs, prev \in SavePrevious :
         fx = [history |-> prev, tmp |-> None, buf |-> <<>>, rest |-> <<>>,
               prev |-> prev, new |-> Serialize(cs), at |-> "create",
               failed |-> FALSE]

\* what a step of save_history leaves alone
SaveFrame ==
    UNCHANGED <<appVars, streams, area, next_id, pc, ps, total_lines,
                viewport_height, appended>>

\* get_history_path() and File::create(&tmp_path): the temporary file is
\* created empty, or the call returns without one
CreateTmp ==
    /\ fx.at = "create"
    /\ \/ fx' = [fx EXCEPT !.tmp = Some(<<>>), !.rest = fx.new, !.at = "serialize"]
       \/ fx' = [fx EXCEPT !.at = "returned"]
    /\ SaveFrame

\* the file after a write of data that succeeds (k = Len(data)) or fails
\* after k tokens
Written(file, data, k) == Some(file[1] \o SubSeq(data, 1, k))

\* the serializer writes its next token into the BufWriter: the token is
\* buffered, after a flush of the buffer when it has no room; a flush that
\* fails makes to_writer_pretty return the error
SerializeToken ==
    /\ fx.at = "serialize" /\ fx.rest # <<>>
    /\ IF Len(fx.buf) + 1 > BufCapacity
       THEN \/ fx' = [fx EXCEPT !.tmp = Written(@, fx.buf, Len(fx.buf)),
                                !.buf = <<Head(fx.rest)>>,
                                !.rest = Tail(@)]
            \/ \E k \in 0..(Len(fx.buf) - 1) :
                 fx' = [fx EXCEPT !.tmp = Written(@, fx.buf, k),
                                  !.buf = SubSeq(@, k + 1, Len(@)),
                                  !.failed = TRUE,
                                  !.at = "remove"]
       ELSE fx' = [fx EXCEPT !.buf = Append(@, Head(fx.rest)), !.rest = Tail(@)]
    /\ SaveFrame

\* to_writer_pretty returns Ok(()) and drops the BufWriter it was given: the
\* drop flushes what is buffered and ignores the result of the flush
SerializeEnd ==
    /\ fx.at = "serialize" /\ fx.rest = <<>>
    /\ \E k \in 0..Len(fx.buf) :
         fx' = [fx EXCEPT !.tmp = Written(@, fx.buf, k), !.buf = <<>>,
                          !.at = "rename"]
    /\ SaveFrame

\* let _ = fs::rename(&tmp_path, &path)
RenameTmp ==
    /\ fx.at = "rename"
    /\ \/ fx' = [fx EXCEPT !.history = fx.tmp, !.tmp = None, !.at = "returned"]
       \/ fx' = [fx EXCEPT !.at = "returned"]
    /\ SaveFrame

\* let _ = fs::remove_file(&tmp_path), after the drop of the BufWriter
RemoveTmp ==
    /\ fx.at = "remove"
    /\ fx' = [fx EXCEPT !.tmp = None, !.buf = <<>>, !.at = "returned"]
    /\ SaveFrame

\* the process is killed during the call: what the BufWriter holds is lost
Crash ==
    /\ fx.at \in {"create", "serialize", "rename", "remove"}
    /\ fx' = [fx EXCEPT !.buf = <<>>, !.at = "crashed"]
    /\ SaveFrame

NextSave ==
    CreateTmp \/ SerializeToken \/ SerializeEnd \/ RenameTmp \/ RemoveTmp \/ Crash

SpecSave == InitSave /\ [][NextSave]_vars

\* C39: at every point of save_history, a failure or a crash included,
\* history.json holds the whole content it had before the call or the whole
\* serialization of the chats; and when the serialization has failed and the
\* call has returned, the temporary file is gone and history.json is as before.
C39_AtomicReplace ==
    /\ fx.history \in {fx.prev, Some(fx.new)}
    /\ (fx.failed /\ fx.at = "returned") =>
           (fx.tmp = None /\ fx.history = fx.prev)

(***************************************************************************)
(* SpecSse: stream_openai over the chunks of one response body.  The body  *)
(* is a sequence of tokens: DATA for the six characters "data: ", DONE for *)
(* "[DONE]", LB and RB for the JSON text before and after the content of a *)
(* delta, a letter for that content, NL for a line feed.  fx holds the     *)
(* events of the body, the chunks bytes_stream() has still to yield, the   *)
(* deltas sent to tx, whether the file of the content log can be opened    *)
(* (log_ok), and where the function is (at).                               *)
(***************************************************************************)

DATA == "data: "
DONE == "[DONE]"
LB == "{"
RB == "}"

\* the contents of the deltas
Deltas == {"a", "b"}

\* the lines of one server-sent event and the empty line behind it
EventLines(ev) ==
    IF ev = DONE THEN <<DATA, DONE, NL, NL>> ELSE <<DATA, LB, ev, RB, NL, NL>>

RECURSIVE SseBody(_)
\* the response body of a sequence of events
SseBody(events) ==
    IF events = <<>> THEN <<>> ELSE EventLines(Head(events)) \o SseBody(Tail(events))

\* the events of the responses: two deltas and [DONE]; a delta behind [DONE]
SseResponses == {<<"a", "b", DONE>>, <<"a", DONE, "b">>}

\* the body cut into at most three transport chunks, after i and after j tokens
TransportChunks(body, i, j) ==
    SelectSeq(<<SubSeq(body, 1, i), SubSeq(body, i + 1, j),
                SubSeq(body, j + 1, Len(body))>>,
              LAMBDA c : c # <<>>)

InitSse ==
    /\ AppInit
    /\ streams = <<>>
    /\ area = ViewArea
    /\ next_id = 1
    /\ pc = "process"
    /\ ps = PsIdle
    /\ total_lines = 0
    /\ viewport_height = 1
    /\ appended = {}
    /\ \E events \in SseResponses, log_ok \in BOOLEAN :
       \E i \in 0..Len(SseBody(events)) :
       \E j \in i..Len(SseBody(events)) :
         fx = [events |-> events,
               chunks |-> TransportChunks(SseBody(events), i, j),
               sent |-> <<>>, log_ok |-> log_ok, at |-> "stream"]

\* line.starts_with("data: ")
StartsWithData(line) == line # <<>> /\ line[1] = DATA

\* serde_json::from_str(data) and json["choices"][0]["delta"]["content"].as_str():
\* the content when data is the whole JSON text of a delta
DeltaContent(data) ==
    IF Len(data) = 3 /\ data[1] = LB /\ data[3] = RB /\ data[2] \in Deltas
    THEN Some(data[2]) ELSE None

RECURSIVE ChunkLines(_, _, _)
\* for line in chunk_str.lines(): the deltas the loop sends, and whether it
\* ends with the error of the log file that cannot be opened
ChunkLines(lines, log_ok, sent) ==
    IF lines = <<>> THEN [sent |-> sent, err |-> FALSE]
    ELSE LET line == Head(lines)
             data == Tail(line)
         IN  IF ~StartsWithData(line) THEN ChunkLines(Tail(lines), log_ok, sent)
             ELSE IF data = <<DONE>> THEN [sent |-> sent, err |-> FALSE]
             ELSE IF DeltaContent(data) = None
                  THEN ChunkLines(Tail(lines), log_ok, sent)
             ELSE IF ~log_ok THEN [sent |-> sent, err |-> TRUE]
             ELSE ChunkLines(Tail(lines), log_ok, Append(sent, DeltaContent(data)[1]))

\* one iteration of while let Some(chunk) = stream.next().await
StreamChunk ==
    /\ fx.at = "stream" /\ fx.chunks # <<>>
    /\ LET r == ChunkLines(StrLines(Head(fx.chunks)), fx.log_ok, <<>>)
       IN  fx' = [fx EXCEPT !.sent = @ \o r.sent,
                            !.chunks = IF r.err THEN @ ELSE Tail(@),
                            !.at = IF r.err THEN "error" ELSE @]
    /\ UNCHANGED <<appVars, streams, area, next_id, pc, ps, total_lines,
                   viewport_height, appended>>

\* the stream has ended: Ok(())
StreamEnd ==
    /\ fx.at = "stream" /\ fx.chunks = <<>>
    /\ fx' = [fx EXCEPT !.at = "returned"]
    /\ UNCHANGED <<appVars, streams, area, next_id, pc, ps, total_lines,
                   viewport_height, appended>>

NextSse == StreamChunk \/ StreamEnd

SpecSse == InitSse /\ [][NextSse]_vars

RECURSIVE BeforeDone(_)
\* the contents of the deltas of the events that precede [DONE]
BeforeDone(events) ==
    IF events = <<>> \/ Head(events) = DONE THEN <<>>
    ELSE <<Head(events)>> \o BeforeDone(Tail(events))

\* C38: however the body is cut into transport chunks, when stream_openai has
\* returned it has sent the content of every delta that precedes [DONE], once
\* each and in order, and nothing else.
C38_EveryDeltaOnce ==
    fx.at # "stream" => fx.sent = BeforeDone(fx.events)

(***************************************************************************)
(* SpecWizard: the Providers tab of the settings and the custom-model      *)
(* wizard.  fx holds the fields of App they use: custom_model_input_stage  *)
(* (stage), custom_model_api_key_choice (choice), the four text inputs,    *)
(* selected_line, the providers that are expanded and custom_models.  A    *)
(* text is a sequence of tokens; the token URL stands for the eight        *)
(* characters of "http://a", typed without another key in between.         *)
(***************************************************************************)

URL == "http://a"

\* what a Char key pushes
WizardChars == {"a", SP, URL}

\* the tokens a text input holds at most
MaxInput == 1

\* the custom models a run adds at most
MaxCustom == 1

\* the lines selected_line goes down to
MaxSelectedLine == 5

\* the models listed under an expanded provider
ModelsPerProvider == 1

\* the names of the providers of App::new, in order
ProviderNames == <<"OpenAI", "Anthropic", "Grok">>

InitWizard ==
    /\ AppInit
    /\ streams = <<>>
    /\ area = ViewArea
    /\ next_id = 1
    /\ pc = "process"
    /\ ps = PsIdle
    /\ total_lines = 0
    /\ viewport_height = 1
    /\ appended = {}
    /\ fx = [stage |-> None, choice |-> None, name_input |-> <<>>,
             url_input |-> <<>>, model_input |-> <<>>, api_key_input |-> <<>>,
             selected_line |-> 0, expanded |-> {}, custom_models |-> <<>>]

\* what the handlers of Settings and CustomModelInput mode leave alone
WizardFrame ==
    /\ KeyStep
    /\ UNCHANGED <<chats, current_chat, sidebar_visible, selected_sidebar_idx,
                   chat_scroll, cursor_line, line_cache, truncated_messages,
                   need_rebuild_cache, line_to_message, focus, stream_tasks,
                   code_blocks, streams, next_id>>

\* Settings mode, Providers tab, 'j' / Down
SettingsDown ==
    /\ WizardFrame /\ mode = "Settings"
    /\ fx.selected_line < MaxSelectedLine
    /\ fx' = [fx EXCEPT !.selected_line = @ + 1]
    /\ UNCHANGED mode

\* Settings mode, Providers tab, 'k' / Up
SettingsUp ==
    /\ WizardFrame /\ mode = "Settings"
    /\ fx' = [fx EXCEPT !.selected_line = IF @ > 0 THEN @ - 1 ELSE @]
    /\ UNCHANGED mode

RECURSIVE ProviderLines(_, _)
\* current_line_iter: the lines of the providers and of the models of the
\* expanded ones
ProviderLines(providers, expanded) ==
    IF providers = <<>> THEN 0
    ELSE 1 + (IF Head(providers) \in expanded THEN ModelsPerProvider ELSE 0)
           + ProviderLines(Tail(providers), expanded)

RECURSIVE LineTarget(_, _, _, _)
\* the loop of the Enter handler over the providers: what selected_line is on
LineTarget(providers, idx, line, expanded) ==
    IF providers = <<>> THEN [kind |-> "none", idx |-> idx]
    ELSE LET p == Head(providers)
             models == IF p \in expanded THEN ModelsPerProvider ELSE 0
         IN  IF line = idx THEN [kind |-> "provider", name |-> p]
             ELSE IF line > idx /\ line <= idx + models THEN [kind |-> "model", name |-> p]
             ELSE LineTarget(Tail(providers), idx + 1 + models, line, expanded)

\* the mutant of EnterWizard that leaves the stage as it is
EnterWizardNoStage(settings) ==
    [settings EXCEPT !.name_input = <<>>, !.url_input = <<>>]

\* app.custom_model_input_stage = Some(CustomModelStage::TypeChoice) and the
\* two inputs cleared with it
EnterWizard(settings) ==
    [settings EXCEPT !.stage = Some("TypeChoice"),
                     !.name_input = <<>>, !.url_input = <<>>]

\* Settings mode, Providers tab, Enter
SettingsEnter ==
    /\ WizardFrame /\ mode = "Settings"
    /\ LET target == LineTarget(ProviderNames, 0, fx.selected_line, fx.expanded)
       IN  IF target.kind = "provider"
           THEN /\ fx' = [fx EXCEPT !.expanded =
                             IF target.name \in @ THEN @ \ {target.name}
                             ELSE @ \cup {target.name}]
                /\ UNCHANGED mode
           ELSE IF target.kind = "model"
           THEN UNCHANGED <<fx, mode>>
           ELSE IF fx.selected_line = target.idx + 1 + Len(fx.custom_models)
           THEN /\ Len(fx.custom_models) < MaxCustom
                /\ mode' = "CustomModelInput"
                /\ fx' = EnterWizard(fx)
           ELSE UNCHANGED <<fx, mode>>

\* the fields every way out of the wizard clears
Cleared(settings) ==
    [settings EXCEPT !.name_input = <<>>, !.url_input = <<>>, !.model_input = <<>>,
                     !.stage = None, !.choice = None, !.api_key_input = <<>>]

\* CustomModelInput mode, Esc
WizardEsc ==
    /\ WizardFrame /\ mode = "CustomModelInput"
    /\ mode' = "Settings"
    /\ fx' = Cleared(fx)

\* the input a Char or Backspace key edits at a stage, or none
StageInput(stage) ==
    CASE stage = "DerivedModelName" -> "model_input"
      [] stage = "StandaloneName" -> "name_input"
      [] stage = "StandaloneUrl" -> "url_input"
      [] stage = "StandaloneModelId" -> "model_input"
      [] stage = "StandaloneApiKeyInput" -> "api_key_input"
      [] OTHER -> "none"

\* CustomModelInput mode, Char(c)
WizardChar(c) ==
    /\ WizardFrame /\ mode = "CustomModelInput" /\ fx.stage # None
    /\ LET input == StageInput(fx.stage[1])
       IN  IF input = "none" THEN UNCHANGED fx
           ELSE /\ Len(fx[input]) < MaxInput
                /\ fx' = [fx EXCEPT ![input] = Append(@, c)]
    /\ UNCHANGED mode

\* CustomModelInput mode, Backspace
WizardBackspace ==
    /\ WizardFrame /\ mode = "CustomModelInput" /\ fx.stage # None
    /\ LET input == StageInput(fx.stage[1])
       IN  IF input = "none" \/ fx[input] = <<>> THEN UNCHANGED fx
           ELSE /\ fx[input][Len(fx[input])] # URL
                /\ fx' = [fx EXCEPT ![input] = SubSeq(@, 1, Len(@) - 1)]
    /\ UNCHANGED mode

\* items.iter().position(|n| n == choice), 0-based, 0 when there is none
ChoicePosition(items, choice) ==
    IF choice # None /\ \E i \in 1..Len(items) : items[i] = choice[1]
    THEN (CHOOSE i \in 1..Len(items) :
              items[i] = choice[1] /\ \A j \in 1..(i - 1) : items[j] # choice[1]) - 1
    ELSE 0

\* the items of the list a stage shows, or none
StageItems(stage) ==
    CASE stage = "TypeChoice" -> <<"Derived", "Standalone">>
      [] stage = "ProviderChoice" -> ProviderNames
      [] stage = "StandaloneApiKeyChoice" -> Append(ProviderNames, "Custom")
      [] OTHER -> <<>>

\* CustomModelInput mode, Down (down) and Up
WizardDownUp(down) ==
    /\ WizardFrame /\ mode = "CustomModelInput" /\ fx.stage # None
    /\ LET items == StageItems(fx.stage[1])
           cur == ChoicePosition(items, fx.choice)
           next == IF down THEN (cur + 1) % Len(items)
                   ELSE (cur + Len(items) - 1) % Len(items)
       IN  IF items = <<>> THEN UNCHANGED fx
           ELSE fx' = [fx EXCEPT !.choice = Some(items[next + 1])]
    /\ UNCHANGED mode

RECURSIVE TextLen(_)
\* str::len of a text
TextLen(str) ==
    IF str = <<>> THEN 0 ELSE (IF Head(str) = URL THEN 8 ELSE 1) + TextLen(Tail(str))

\* Url::parse(url_str) is Ok(u) with the scheme http or https
IsHttpUrl(str) == str # <<>> /\ str[1] = URL /\ \A i \in 1..Len(str) : str[i] # SP

\* app.custom_models.push(new_cm), the wizard left for the settings, and
\* selected_line put on the line of the new custom model
Completed(settings, new_cm) ==
    [Cleared(settings) EXCEPT
        !.custom_models = Append(@, new_cm),
        !.selected_line = ProviderLines(ProviderNames, settings.expanded) + 1
                          + Len(settings.custom_models)]

\* CustomModelStage::Standalone { .. } of the inputs
StandaloneModel(settings, api_key, use_key_from) ==
    [kind |-> "Standalone", name |-> Trim(settings.name_input),
     endpoint |-> Trim(settings.url_input), model |-> Trim(settings.model_input),
     api_key |-> api_key, use_key_from |-> use_key_from]

\* CustomModelInput mode, Enter
WizardEnter ==
    /\ WizardFrame /\ mode = "CustomModelInput" /\ fx.stage # None
    /\ LET stage == fx.stage[1]
           stay(settings) == fx' = settings /\ UNCHANGED mode
           leave(new_cm) == fx' = Completed(fx, new_cm) /\ mode' = "Settings"
       IN  CASE stage = "TypeChoice" ->
                  IF fx.choice = None THEN stay(fx)
                  ELSE IF fx.choice = Some("Derived")
                  THEN stay([fx EXCEPT !.stage = Some("ProviderChoice"),
                                       !.choice = Some(ProviderNames[1])])
                  ELSE stay([fx EXCEPT !.stage = Some("StandaloneName"),
                                       !.choice = None])
             [] stage = "ProviderChoice" ->
                  IF fx.choice # None
                  THEN stay([fx EXCEPT !.stage = Some("DerivedModelName")])
                  ELSE stay(fx)
             [] stage = "DerivedModelName" ->
                  LET model == Trim(fx.model_input)
                  IN  IF model = <<>> \/ TextLen(model) > 50 \/ fx.choice = None
                      THEN stay(fx)
                      ELSE leave([kind |-> "Derived", provider |-> fx.choice[1],
                                  model |-> model])
             [] stage = "StandaloneName" ->
                  LET nm == Trim(fx.name_input)
                  IN  IF nm = <<>> \/ TextLen(nm) > 50 THEN stay(fx)
                      ELSE stay([fx EXCEPT !.stage = Some("StandaloneUrl")])
             [] stage = "StandaloneUrl" ->
                  IF IsHttpUrl(Trim(fx.url_input))
                  THEN stay([fx EXCEPT !.stage = Some("StandaloneModelId")])
                  ELSE stay(fx)
             [] stage = "StandaloneModelId" ->
                  IF Trim(fx.model_input) = <<>> THEN stay(fx)
                  ELSE stay([fx EXCEPT !.stage = Some("StandaloneApiKeyChoice"),
                                       !.choice = Some(ProviderNames[1])])
             [] stage = "StandaloneApiKeyChoice" ->
                  IF fx.choice = None THEN stay(fx)
                  ELSE IF fx.choice = Some("Custom")
                  THEN stay([fx EXCEPT !.stage = Some("StandaloneApiKeyInput")])
                  ELSE leave(StandaloneModel(fx, None, fx.choice))
             [] stage = "StandaloneApiKeyInput" ->
                  LET key == Trim(fx.api_key_input)
                  IN  IF TextLen(key) < 8 THEN stay(fx)
                      ELSE leave(StandaloneModel(fx, Some(key), None))

NextWizard ==
    \/ Frame
    \/ PollTimeout
    \/ KeySettings
    \/ KeyEsc
    \/ SettingsDown
    \/ SettingsUp
    \/ SettingsEnter
    \/ WizardEsc
    \/ \E c \in WizardChars : WizardChar(c)
    \/ WizardBackspace
    \/ \E down \in BOOLEAN : WizardDownUp(down)
    \/ WizardEnter

SpecWizard == InitWizard /\ [][NextWizard]_vars

\* C37: in every state the mode is CustomModelInput exactly when
\* custom_model_input_stage is Some: the stage is set by the key that enters
\* the wizard and cleared by the keys that leave it (Esc, the last Enter), so
\* no unwrap of the stage in handle_key or in the drawing of the wizard fails.
C37_StageWellFormed ==
    (mode = "CustomModelInput") <=> (fx.stage # None)

\* the wizard is at its last stage, the API key of a Standalone model, with
\* the name, the URL and the model id entered
C37_Witness ==
    /\ mode = "CustomModelInput"
    /\ fx.stage = Some("StandaloneApiKeyInput")
    /\ fx.url_input = <<URL>>
    /\ fx.api_key_input # <<>>

\* a custom model was added and the wizard left by its last Enter
C37_Completed ==
    /\ mode = "Settings"
    /\ fx.custom_models # <<>>
    /\ fx.stage = None

====
